---- MODULE Spec2Model ----
(***************************************************************************)
(* vgi-rpc-typescript: the pipe transport.                                 *)
(*                                                                         *)
(* One client (pipeConnect, src/client/pipe.ts) talks to one server        *)
(* (VgiRpcServer, src/server.ts) over two FIFO byte channels.  Each        *)
(* channel carries back-to-back Arrow IPC streams; a stream is modelled as *)
(* a schema frame "S", batch frames "B" and an end-of-stream frame "E".    *)
(*                                                                         *)
(* Modelling conventions                                                   *)
(*  - The Arrow IPC library is outside the repository.  Its reader is      *)
(*    modelled by the contract written in src/wire/reader.ts: openNext     *)
(*    reads the next schema message, readNextBatch returns the next batch  *)
(*    of the open stream and null at its end-of-stream marker; once a      *)
(*    stream has ended readNextBatch keeps returning null (the server      *)
(*    loop of dispatchStream and the iterator of PipeStreamSession both    *)
(*    read once more after the marker and the conformance tests rely on    *)
(*    that read returning).                                                *)
(*  - The client is a single JavaScript thread: a step of a client task    *)
(*    runs from one await on the pipe to the next.  Continuations of an    *)
(*    already resolved promise (microtasks) run before any further I/O,    *)
(*    so they are part of the step that resolves the promise.              *)
(*  - Handlers follow the OutputCollector contract (src/types.ts: "exactly *)
(*    one data batch is emitted per call"): a call emits logs and then one *)
(*    data batch, or finishes (producers), or throws.                      *)
(*  - Calls go to unary methods and stream() goes to stream methods or to  *)
(*    a name the server does not know; a session of a producer method is   *)
(*    iterated and a session of an exchange method is exchanged with.      *)
(*  - close() is called between operations or from the body of a for-await *)
(*    loop over the session.  Reads of the one reader that are pending at  *)
(*    the same time (the drain of close() and the resumed iterator, the    *)
(*    iterator's drain and the readStream() of a later call) are served in *)
(*    either order.                                                        *)
(***************************************************************************)
EXTENDS Integers, Sequences, FiniteSets, TLC

\* ------------------------------------------------------------------------
\* Bounds of the model
\* ------------------------------------------------------------------------
MaxOps == 2
MaxAux == 1
MaxRounds == 2
MaxLogs == 1
MaxCalls == 3
MaxField == 1
MaxTtl == 2
MaxRawStreams == 3
MaxRawBatches == 2
MaxExchanges == 3
MaxUnaryLogs == 2
MaxName == 1
MaxMethods == 2
MaxBody == 2

\* ------------------------------------------------------------------------
\* Protocol: the registered methods
\* ------------------------------------------------------------------------
DESCRIBE_METHOD_NAME == "__describe__"

UnaryMethods == {"u"}
ProducerMethods == {"p", "ph"}
ExchangeMethods == {"x", "xh", "xo"}
StreamMethods == ProducerMethods \cup ExchangeMethods
Methods == UnaryMethods \cup StreamMethods
Unknown == "zz"

HasHeader(m) == m \in {"ph", "xh"}
isProducer(m) == m \in ProducerMethods
\* state?.__isProducer ?? isProducer: the init state of "xo" carries the
\* override __isProducer = true
effectiveProducer(m) == m = "xo" \/ isProducer(m)

Tasks == {"main", "aux"}

\* ------------------------------------------------------------------------
\* Frames on the wire
\* ------------------------------------------------------------------------
\* k: "S" schema message, "B" record batch, "E" end-of-stream marker
\* op: the client operation the frame belongs to (request id)
\* b: for "S" the schema, for "B" the batch kind
\* m: the method metadata of a request batch
\* n: for "S" written by the client the ordinal of the stream,
\*    for a data batch its ordinal in the session
F(k, o, b, m, n) == [k |-> k, op |-> o, b |-> b, m |-> m, n |-> n]

LogFrames(o, nl) == [i \in 1..nl |-> F("B", o, "log", "", 0)]

\* serializeIpcStream / IpcStreamWriter.writeStream: schema, batches, EOS
wireStream(o, schema, sid, batches) ==
    <<F("S", o, schema, "", sid)>> \o batches \o <<F("E", o, "", "", 0)>>

buildRequestIpc(o, m, sid) ==
    wireStream(o, "params", sid, <<F("B", o, "req", m, 0)>>)

emptyIpcStream(o, sid) == wireStream(o, "empty", sid, <<>>)

HasStream(q) == \E i \in 1..Len(q) : q[i].k = "E"
FirstE(q) == CHOOSE i \in 1..Len(q) : q[i].k = "E" /\ \A j \in 1..(i-1) : q[j].k # "E"
Tail2(q, i) == SubSeq(q, i + 1, Len(q))

\* ------------------------------------------------------------------------
\* State
\* ------------------------------------------------------------------------
VARIABLES
    c2s,            \* client -> server byte channel (server stdin)
    s2c,            \* server -> client byte channel (server stdout)
    c2sClosed,      \* writable.end() was called
    s2cClosed,      \* the server process has exited
    busy,           \* pipeConnect._busy
    drainPromise,   \* pipeConnect._drainPromise: "none", "pending", "resolved"
    drainWaiters,   \* tasks suspended in acquireBusy on the drain promise
    methodCache,    \* pipeConnect.methodCache is set
    cliClosed,      \* pipeConnect.closed
    crd,            \* client IpcStreamReader: "idle", "open", "ended"
    pc,             \* position of each client task
    op,             \* the operation each client task runs
    res,            \* outcome of the last operation of each task
    sess,           \* the PipeStreamSession of the main task
    dpc,            \* position of the background drain of close()
    srvPc,          \* position of the server loop
    srd,            \* server IpcStreamReader: "idle", "open", "ended"
    srvReq,         \* the request the server is serving / served last
    srvPrev,        \* the request served before srvReq
    holders,        \* operations that acquired the lock and have not released it
    nextOp,         \* next operation id
    nextSid,        \* ordinal of the next stream the client writes
    ops,            \* operations started by each task
    srvOut,         \* the server's IncrementalStream is open
    produced,       \* data batches written in the stream session served last
    initFailed,     \* operations whose init or header_init threw
    errSeen,        \* operations for which the client read an EXCEPTION batch
    busyFail,       \* what the lock state was at the last busy error
    foreign,        \* some operation consumed a frame of another operation
    desync,         \* a reader met a message that cannot start / continue a stream
    oc,             \* an OutputCollector a handler function is working on
    ocLast,         \* the last call made on oc, the list before it, and whether it threw
    tokCase,        \* a state token and how it was made
    tokOut,         \* the last unpackStateToken call: its arguments and outcome
    transport,      \* how the server is run: "pipe" (stdio) or "http"
    hCfg,           \* createHttpHandler options: tokenTtl, maxStreamResponseBytes
    hNow,           \* Date.now() in seconds
    hCli,           \* the HTTP client's stream session
    hResp,          \* the last HTTP request and the response to it
    raw,            \* a peer that writes the server's stdin frame by frame
    rq,             \* a handler made by createHttpHandler and the request it answered
    xs,             \* a client stream session and what its exchange() calls wrote
    un              \* a unary call: its handler and the response to it

\* the variables of the pipe transport
pipeVars == <<c2s, s2c, c2sClosed, s2cClosed, busy, drainPromise, drainWaiters,
          methodCache, cliClosed, crd, pc, op, res, sess, dpc, srvPc, srd,
          srvReq, srvPrev, holders, nextOp, nextSid, ops, srvOut, produced,
          initFailed, errSeen, busyFail, foreign, desync, raw, xs, un, rq>>
\* the variables of the collector exercised on its own
ocVars == <<oc, ocLast>>
\* the variables of the token functions exercised on their own
tokVars == <<tokCase, tokOut>>
\* the variables of the HTTP transport
httpVars == <<hCfg, hNow, hCli, hResp>>

vars == <<oc, ocLast, tokCase, tokOut, transport, hCfg, hNow, hCli, hResp, c2s, s2c, c2sClosed, s2cClosed, busy, drainPromise, drainWaiters,
          methodCache, cliClosed, crd, pc, op, res, sess, dpc, srvPc, srd,
          srvReq, srvPrev, holders, nextOp, nextSid, ops, srvOut, produced,
          initFailed, errSeen, busyFail, foreign, desync, raw, xs, un, rq>>

NoOp == [kind |-> "none", m |-> "", id |-> 0, err |-> "none", waited |-> FALSE]

\* PipeStreamSession fields
NoSess == [exists |-> FALSE, op |-> 0, m |-> "", closed |-> FALSE,
           writer |-> FALSE, opened |-> FALSE, mode |-> "none", rounds |-> 0,
           got |-> <<>>, end |-> "none"]

NoReq == [seq |-> 0, op |-> 0, m |-> "", sid |-> 0, kind |-> "none",
          streams |-> 0, errSchema |-> "", fail |-> "none",
          inSid |-> 0, inOpened |-> FALSE, inEos |-> FALSE, inEof |-> FALSE,
          early |-> FALSE, discarded |-> 0, loopErr |-> FALSE,
          drainErr |-> FALSE, afterEof |-> 0]

\* pc: "idle" (between streams), "in" (inside an input stream); streams: the
\* streams it opened; batches: the batches of the input stream it is in;
\* bad: it wrote a message that cannot continue a stream
\* a schema is the sequence of its field names; none is the empty sequence
NoSchema == <<>>
NoRows == [keys |-> <<>>, n |-> 0]
\* transport: which session class; inputSchema: _inputSchema; outputSchema:
\* _outputSchema; writer: the schema _inputWriter was opened with; live: the
\* pipe session is not closed / the HTTP session holds a state token;
\* wire: the messages written or posted; calls: the exchange() calls made;
\* locked: the schema of the first non-empty exchange that was sent;
\* last: the call made last, the lock before it, what it wrote and threw
NoXs == [transport |-> "none", inputSchema |-> NoSchema, outputSchema |-> NoSchema,
         writer |-> NoSchema, live |-> FALSE, wire |-> <<>>, calls |-> 0,
         locked |-> NoSchema,
         last |-> [input |-> NoRows, locked |-> NoSchema, wrote |-> <<>>,
                   err |-> "none"]]

NoRaw == [pc |-> "idle", streams |-> 0, batches |-> 0, bad |-> FALSE]

\* no session is exercised on its own
XsIdle == xs = NoXs

\* an unset option of createHttpHandler
unset == -1

\* made: createHttpHandler has run; collation: the order of localeCompare
\* in the runtime; methods: protocol.getMethods() in
\* registration order; corsOrigins, maxRequestBytes: the options;
\* request: the request handed to the handler; response: its answer
NoRequest == [method |-> "", path |-> [under |-> FALSE, route |-> "", name |-> <<>>, action |-> ""],
              contentType |-> <<>>, contentLength |-> <<>>, body |-> 0]
NoResponse == [status |-> 0, body |-> "", rows |-> <<>>, ran |-> "none"]
NoRq == [made |-> FALSE, collation |-> "", methods |-> <<>>, corsOrigins |-> FALSE,
         maxRequestBytes |-> unset, n |-> 0, request |-> NoRequest,
         response |-> NoResponse]

\* calls: the unary calls made; transport: how the last one was made;
\* handler: what its handler did; status: the HTTP status; body: the
\* messages of the response
NoUn == [calls |-> 0, transport |-> "none", handler |-> [logs |-> <<>>, end |-> "none"],
         status |-> 0, body |-> <<>>]

PipeInit ==
    /\ c2s = <<>> /\ s2c = <<>>
    /\ c2sClosed = FALSE /\ s2cClosed = FALSE
    /\ busy = FALSE
    /\ drainPromise = "none"
    /\ drainWaiters = <<>>
    /\ methodCache = FALSE
    /\ cliClosed = FALSE
    /\ crd = "idle"
    /\ pc = [t \in Tasks |-> "idle"]
    /\ op = [t \in Tasks |-> NoOp]
    /\ res = [t \in Tasks |-> "none"]
    /\ sess = NoSess
    /\ dpc = "none"
    /\ srvPc = "serve"
    /\ srd = "idle"
    /\ srvReq = NoReq
    /\ srvPrev = NoReq
    /\ holders = {}
    /\ nextOp = 1
    /\ nextSid = 1
    /\ ops = [t \in Tasks |-> 0]
    /\ srvOut = FALSE
    /\ produced = [op |-> 0, seq |-> <<>>, threw |-> FALSE, read |-> 0,
                   calls |-> 0, fn |-> "none", fin |-> FALSE]
    /\ initFailed = {}
    /\ errSeen = {}
    /\ busyFail = [seen |-> FALSE, draining |-> FALSE]
    /\ foreign = FALSE
    /\ desync = FALSE
    /\ raw = NoRaw
    /\ rq = NoRq
    /\ un = NoUn

\* the variables of the pipe transport proper
pipeVarsButXs == <<c2s, s2c, c2sClosed, s2cClosed, busy, drainPromise, drainWaiters,
          methodCache, cliClosed, crd, pc, op, res, sess, dpc, srvPc, srd,
          srvReq, srvPrev, holders, nextOp, nextSid, ops, srvOut, produced,
          initFailed, errSeen, busyFail, foreign, desync, raw, rq>>

\* every variable but desync
others == <<c2s, s2c, c2sClosed, s2cClosed, busy, drainPromise, drainWaiters,
            methodCache, cliClosed, crd, pc, op, res, sess, dpc, srvPc, srd,
            srvReq, srvPrev, holders, nextOp, nextSid, ops, srvOut, produced,
            initFailed, errSeen, busyFail, foreign>>

\* The Arrow reader throws on a message that is not the one the stream
\* grammar allows next; the two sides are then out of step for good.
Halt == desync' = TRUE /\ UNCHANGED others

\* history of the server that no client step changes
srvGhost == <<initFailed, srvOut, produced>>


\* ------------------------------------------------------------------------
\* OutputCollector (src/types.ts)
\* ------------------------------------------------------------------------
\* an entry of _batches: a data batch with its row count, or a log batch
Batch(k, rows) == [k |-> k, rows |-> rows]
\* _dataBatchIdx is null (-1 here) until the data batch is emitted
NewCollector(producerMode) ==
    [batches |-> <<>>, dataBatchIdx |-> -1, finished |-> FALSE,
     producerMode |-> producerMode]
\* the collector after a call, and whether the call threw
OcResult(c, threw) == [c |-> c, threw |-> threw]

\* what emit() is handed: columns that fit the output schema or not, and
\* the number of rows
EmitArgs == [ok : BOOLEAN, rows : 0..1]

\* variant of emit() without the one-data-batch test
emit_noTest(c, arg) ==
    IF ~arg.ok THEN OcResult(c, TRUE)
    ELSE OcResult([c EXCEPT !.dataBatchIdx = Len(c.batches),
                            !.batches = Append(@, Batch("data", arg.rows))], FALSE)

\* emit(): build the batch (throws when the columns do not fit), throw if a
\* data batch was emitted before, else record its index and push it
emit(c, arg) ==
    IF ~arg.ok THEN OcResult(c, TRUE)
    ELSE IF c.dataBatchIdx # -1 THEN OcResult(c, TRUE)
    ELSE OcResult([c EXCEPT !.dataBatchIdx = Len(c.batches),
                            !.batches = Append(@, Batch("data", arg.rows))], FALSE)

\* emitRow(): wrap each value in a one-element column, then emit()
emitRow(c, ok) == emit(c, [ok |-> ok, rows |-> 1])

\* variant of finish() without the producer-mode test
finish_noTest(c) == OcResult([c EXCEPT !.finished = TRUE], FALSE)

\* finish(): throws on an exchange collector
finish(c) ==
    IF ~c.producerMode THEN OcResult(c, TRUE)
    ELSE OcResult([c EXCEPT !.finished = TRUE], FALSE)

\* clientLog(): push a zero-row log batch
buildLogBatch(message) == [k |-> "log", rows |-> 0, message |-> message]
clientLog(c, message) ==
    OcResult([c EXCEPT !.batches = Append(@, buildLogBatch(message))], FALSE)

DataBatches(c) == {i \in 1..Len(c.batches) : c.batches[i].k = "data"}

NoCall == [call |-> "none", before |-> <<>>, threw |-> FALSE]

\* no handler function is running
OcIdle == oc = NewCollector(TRUE) /\ ocLast = NoCall

\* a call on the collector: its outcome and what the list was before
OcCall(name, r) ==
    /\ Len(oc.batches) < MaxCalls
    /\ oc' = r.c
    /\ ocLast' = [call |-> name, before |-> oc.batches, threw |-> r.threw]
    /\ UNCHANGED <<pipeVars, tokVars, transport, httpVars>>

OcEmit == \E arg \in EmitArgs : OcCall("emit", emit(oc, arg))
OcEmitRow == \E ok \in BOOLEAN : OcCall("emitRow", emitRow(oc, ok))
OcClientLog == OcCall("clientLog", clientLog(oc, "log"))
OcFinish == OcCall("finish", finish(oc))

\* One call of a produce / exchange function is a script of calls on its
\* collector, possibly ending in an exception of its own.  An exception of
\* the collector is not caught by the function.
HandlerCall(c, call) ==
    CASE call = "emit"   -> emit(c, [ok |-> TRUE, rows |-> 1])
      [] call = "emit0"  -> emit(c, [ok |-> TRUE, rows |-> 0])
      [] call = "log"    -> clientLog(c, "log")
      [] call = "finish" -> finish(c)
      [] call = "throw"  -> OcResult(c, TRUE)

RECURSIVE Run(_, _)
Run(c, script) ==
    IF script = <<>> THEN OcResult(c, FALSE)
    ELSE LET r == HandlerCall(c, Head(script)) IN
         IF r.threw THEN r ELSE Run(r.c, Tail(script))

\* an exception leaves the function: the dispatcher's catch block writes an
\* error batch and never reads the collector
Thrown(r) == IF r.threw THEN OcResult(NewCollector(r.c.producerMode), TRUE) ELSE r

Scripts(calls) == UNION {[1..n -> calls] : n \in 0..MaxCalls}

\* the outcomes of one call of a handler function that keeps the contract
\* "one data batch per call, or finish, or an exception"
HandlerResults(producerMode, calls) ==
    {r \in {Thrown(Run(NewCollector(producerMode), sc)) : sc \in Scripts(calls)} :
        r.threw \/ r.c.finished \/ DataBatches(r.c) # {}}

\* ------------------------------------------------------------------------
\* State tokens of the HTTP transport (src/http/token.ts)
\* ------------------------------------------------------------------------
TOKEN_VERSION == 2
HMAC_LEN == 32
MIN_TOKEN_LEN == 1 + 8 + 12 + HMAC_LEN

\* Integers of the model stay below Huge; a decoded integer that is larger
\* reads as Huge, which exceeds every length and every time of the model.
Huge == 256 * 256 * 256

\* writeUInt32LE / writeBigUInt64LE: n in w bytes, least significant first
RECURSIVE LE(_, _)
LE(n, w) == IF w = 0 THEN <<>> ELSE <<n % 256>> \o LE(n \div 256, w - 1)

\* readUInt32LE / readBigUInt64LE on the bytes b
RECURSIVE FromLE(_)
FromLE(b) ==
    IF b = <<>> THEN 0
    ELSE LET hi == FromLE(Tail(b)) IN
         IF hi >= Huge \div 256 THEN Huge ELSE Head(b) + 256 * hi

\* base64: a string is a sequence of sextets 0..63, and Pad for "="
Pad == 64

\* Buffer.toString("base64")
RECURSIVE toBase64(_)
toBase64(b) ==
    IF Len(b) = 0 THEN <<>>
    ELSE IF Len(b) = 1
    THEN <<b[1] \div 4, (b[1] % 4) * 16, Pad, Pad>>
    ELSE IF Len(b) = 2
    THEN <<b[1] \div 4, (b[1] % 4) * 16 + b[2] \div 16, (b[2] % 16) * 4, Pad>>
    ELSE <<b[1] \div 4, (b[1] % 4) * 16 + b[2] \div 16,
           (b[2] % 16) * 4 + b[3] \div 64, b[3] % 64>>
         \o toBase64(SubSeq(b, 4, Len(b)))

RECURSIVE fromSextets(_)
fromSextets(q) ==
    IF Len(q) < 2 THEN <<>>
    ELSE IF Len(q) = 2
    THEN <<q[1] * 4 + q[2] \div 16>>
    ELSE IF Len(q) = 3
    THEN <<q[1] * 4 + q[2] \div 16, (q[2] % 16) * 16 + q[3] \div 4>>
    ELSE <<q[1] * 4 + q[2] \div 16, (q[2] % 16) * 16 + q[3] \div 4,
           (q[3] % 4) * 64 + q[4]>>
         \o fromSextets(SubSeq(q, 5, Len(q)))

\* Buffer.from(str, "base64"): decoding stops at the first "=", a lone
\* trailing sextet is dropped
fromBase64(str) ==
    LET stop == IF \E i \in 1..Len(str) : str[i] = Pad
                THEN (CHOOSE i \in 1..Len(str) :
                         str[i] = Pad /\ \A j \in 1..(i - 1) : str[j] # Pad) - 1
                ELSE Len(str)
        IsSextet(c) == c < Pad
    IN fromSextets(SelectSeq(SubSeq(str, 1, stop), IsSextet))

\* variant of the MAC that does not depend on the key
hmac_noKey(key, payload) ==
    [i \in 1..HMAC_LEN |-> IF i <= Len(payload) THEN payload[i] ELSE 0]

\* createHmac("sha256", key).update(payload).digest(): 32 bytes.  HMAC-SHA256
\* is taken to be free of collisions; here the digest spells out the key and
\* the payload, which the sizes of the model let it do in full.
hmac(key, payload) ==
    LET all == <<Len(key)>> \o key \o payload IN
    [i \in 1..HMAC_LEN |-> IF i <= Len(all) THEN all[i] ELSE 0]

\* the bytes the MAC is taken over
tokenPayload(version, createdAt, stateBytes, schemaBytes, inputSchemaBytes) ==
    <<version>> \o LE(createdAt, 8)
        \o LE(Len(stateBytes), 4) \o stateBytes
        \o LE(Len(schemaBytes), 4) \o schemaBytes
        \o LE(Len(inputSchemaBytes), 4) \o inputSchemaBytes

packStateToken(stateBytes, schemaBytes, inputSchemaBytes, signingKey, createdAt) ==
    LET buf == tokenPayload(TOKEN_VERSION, createdAt, stateBytes, schemaBytes,
                            inputSchemaBytes)
    IN toBase64(buf \o hmac(signingKey, buf))

\* what unpackStateToken returns, or the error it throws
Unpacked(stateBytes, schemaBytes, inputSchemaBytes, createdAt) ==
    [err |-> "none", stateBytes |-> stateBytes, schemaBytes |-> schemaBytes,
     inputSchemaBytes |-> inputSchemaBytes, createdAt |-> createdAt]
UnpackError(e) ==
    [err |-> e, stateBytes |-> <<>>, schemaBytes |-> <<>>,
     inputSchemaBytes |-> <<>>, createdAt |-> 0]

\* payload.readUInt32LE(offset), offset counted from 0: -1 stands for the
\* RangeError of a read that leaves the buffer
readUInt32LE(payload, offset) ==
    IF offset + 4 > Len(payload) THEN -1
    ELSE FromLE(SubSeq(payload, offset + 1, offset + 4))

\* variant of slice that starts one byte early
slice_early(payload, from, to) == SubSeq(payload, from, to)

\* payload.slice(from, to), offsets counted from 0
slice(payload, from, to) == SubSeq(payload, from + 1, to)

\* variant of unpackStateToken that does not compare the MAC
unpackStateToken_noMac(tokenBase64, signingKey, tokenTtl, now) ==
    LET token == fromBase64(tokenBase64) IN
    IF Len(token) < MIN_TOKEN_LEN THEN UnpackError("too short")
    ELSE
    LET payload == SubSeq(token, 1, Len(token) - HMAC_LEN)
        version == payload[1]
        createdAt == FromLE(SubSeq(payload, 2, 9))
        stateLen == readUInt32LE(payload, 9)
        o2 == 13 + stateLen
        schemaLen == readUInt32LE(payload, o2)
        o3 == o2 + 4 + schemaLen
        inputSchemaLen == readUInt32LE(payload, o3)
        o4 == o3 + 4 + inputSchemaLen
    IN
    IF version # TOKEN_VERSION THEN UnpackError("version")
    ELSE IF tokenTtl > 0 /\ now - createdAt > tokenTtl THEN UnpackError("expired")
    ELSE IF 13 + stateLen > Len(payload) THEN UnpackError("truncated (state)")
    ELSE IF schemaLen = -1 THEN UnpackError("range")
    ELSE IF o2 + 4 + schemaLen > Len(payload) THEN UnpackError("truncated (schema)")
    ELSE IF inputSchemaLen = -1 THEN UnpackError("range")
    ELSE IF o3 + 4 + inputSchemaLen > Len(payload)
    THEN UnpackError("truncated (input schema)")
    ELSE Unpacked(slice(payload, 13, o2), slice(payload, o2 + 4, o3),
                  slice(payload, o3 + 4, o4), createdAt)

\* variant of unpackStateToken that applies the TTL even when it is 0
unpackStateToken_ttl0(tokenBase64, signingKey, tokenTtl, now) ==
    LET token == fromBase64(tokenBase64) IN
    IF Len(token) < MIN_TOKEN_LEN THEN UnpackError("too short")
    ELSE
    LET payload == SubSeq(token, 1, Len(token) - HMAC_LEN)
        receivedMac == SubSeq(token, Len(token) - HMAC_LEN + 1, Len(token))
        version == payload[1]
        createdAt == FromLE(SubSeq(payload, 2, 9))
        stateLen == readUInt32LE(payload, 9)
        o2 == 13 + stateLen
        schemaLen == readUInt32LE(payload, o2)
        o3 == o2 + 4 + schemaLen
        inputSchemaLen == readUInt32LE(payload, o3)
        o4 == o3 + 4 + inputSchemaLen
    IN
    IF receivedMac # hmac(signingKey, payload) THEN UnpackError("hmac")
    ELSE IF version # TOKEN_VERSION THEN UnpackError("version")
    ELSE IF now - createdAt > tokenTtl THEN UnpackError("expired")
    ELSE IF 13 + stateLen > Len(payload) THEN UnpackError("truncated (state)")
    ELSE IF schemaLen = -1 THEN UnpackError("range")
    ELSE IF o2 + 4 + schemaLen > Len(payload) THEN UnpackError("truncated (schema)")
    ELSE IF inputSchemaLen = -1 THEN UnpackError("range")
    ELSE IF o3 + 4 + inputSchemaLen > Len(payload)
    THEN UnpackError("truncated (input schema)")
    ELSE Unpacked(slice(payload, 13, o2), slice(payload, o2 + 4, o3),
                  slice(payload, o3 + 4, o4), createdAt)

\* unpackStateToken: decode, length test, MAC, version, TTL, then the three
\* length-prefixed fields
unpackStateToken(tokenBase64, signingKey, tokenTtl, now) ==
    LET token == fromBase64(tokenBase64) IN
    IF Len(token) < MIN_TOKEN_LEN THEN UnpackError("too short")
    ELSE
    LET payload == SubSeq(token, 1, Len(token) - HMAC_LEN)
        receivedMac == SubSeq(token, Len(token) - HMAC_LEN + 1, Len(token))
        version == payload[1]
        createdAt == FromLE(SubSeq(payload, 2, 9))
        stateLen == readUInt32LE(payload, 9)
        o2 == 13 + stateLen
        schemaLen == readUInt32LE(payload, o2)
        o3 == o2 + 4 + schemaLen
        inputSchemaLen == readUInt32LE(payload, o3)
        o4 == o3 + 4 + inputSchemaLen
    IN
    IF receivedMac # hmac(signingKey, payload) THEN UnpackError("hmac")
    ELSE IF version # TOKEN_VERSION THEN UnpackError("version")
    ELSE IF tokenTtl > 0 /\ now - createdAt > tokenTtl THEN UnpackError("expired")
    ELSE IF 13 + stateLen > Len(payload) THEN UnpackError("truncated (state)")
    ELSE IF schemaLen = -1 THEN UnpackError("range")
    ELSE IF o2 + 4 + schemaLen > Len(payload) THEN UnpackError("truncated (schema)")
    ELSE IF inputSchemaLen = -1 THEN UnpackError("range")
    ELSE IF o3 + 4 + inputSchemaLen > Len(payload)
    THEN UnpackError("truncated (input schema)")
    ELSE Unpacked(slice(payload, 13, o2), slice(payload, o2 + 4, o3),
                  slice(payload, o3 + 4, o4), createdAt)

\* the inputs the token functions are exercised on
SigningKeys == {<<11>>, <<12>>}
StateBytes == UNION {[1..n -> {77}] : n \in 0..MaxField}
SchemaBytes == UNION {[1..n -> {200}] : n \in 0..MaxField}
\* a creation time that takes two bytes
CreatedAts == {300}
TokenTtls == {0, MaxTtl}
\* the clock at unpacking, relative to the creation time
Ages == {0, MaxTtl, MaxTtl + 1}

NoToken == [kind |-> "none", token |-> <<>>, key |-> <<>>, version |-> 0,
            stateBytes |-> <<>>, schemaBytes |-> <<>>, inputSchemaBytes |-> <<>>,
            createdAt |-> 0]
NoUnpack == [done |-> FALSE, key |-> <<>>, ttl |-> 0, now |-> 0,
             r |-> UnpackError("none")]

TokIdle == tokCase = NoToken /\ tokOut = NoUnpack

\* b with bit k of byte i flipped
FlipBit(b, i, k) ==
    LET w == IF k = 0 THEN 1 ELSE IF k = 1 THEN 2 ELSE IF k = 2 THEN 4
             ELSE IF k = 3 THEN 8 ELSE IF k = 4 THEN 16 ELSE IF k = 5 THEN 32
             ELSE IF k = 6 THEN 64 ELSE 128
    IN [b EXCEPT ![i] = IF (@ \div w) % 2 = 1 THEN @ - w ELSE @ + w]

\* packStateToken with an explicit creation time
TokPack ==
    /\ tokCase.kind = "none"
    /\ \E s \in StateBytes, so \in SchemaBytes, si \in SchemaBytes,
          key \in SigningKeys, t \in CreatedAts :
          tokCase' = [kind |-> "packed",
                      token |-> packStateToken(s, so, si, key, t),
                      key |-> key, version |-> TOKEN_VERSION, stateBytes |-> s,
                      schemaBytes |-> so, inputSchemaBytes |-> si, createdAt |-> t]
    /\ UNCHANGED <<tokOut, pipeVars, ocVars, transport, httpVars>>

\* one bit of a packed token is flipped, in the payload or in the MAC
TokFlip ==
    /\ tokCase.kind = "packed"
    /\ ~tokOut.done
    /\ LET bytes == fromBase64(tokCase.token) IN
       \E i \in 1..Len(bytes), k \in 0..7 :
          tokCase' = [tokCase EXCEPT !.kind = "flipped",
                                     !.token = toBase64(FlipBit(bytes, i, k))]
    /\ UNCHANGED <<tokOut, pipeVars, ocVars, transport, httpVars>>

\* a packed token loses bytes at its end
TokCut ==
    /\ tokCase.kind = "packed"
    /\ ~tokOut.done
    /\ LET bytes == fromBase64(tokCase.token) IN
       \E n \in 0..(Len(bytes) - 1) :
          tokCase' = [tokCase EXCEPT !.kind = "cut",
                                     !.token = toBase64(SubSeq(bytes, 1, n))]
    /\ UNCHANGED <<tokOut, pipeVars, ocVars, transport, httpVars>>

\* a holder of a key signs a payload of any version whose end is missing
TokSign ==
    /\ tokCase.kind = "none"
    /\ \E s \in StateBytes, so \in SchemaBytes, si \in SchemaBytes,
          key \in SigningKeys, t \in CreatedAts,
          version \in {TOKEN_VERSION - 1, TOKEN_VERSION}, cut \in 0..(MaxField + 4) :
          LET full == tokenPayload(version, t, s, so, si)
              buf == SubSeq(full, 1, Len(full) - cut)
          IN tokCase' = [kind |-> "signed",
                         token |-> toBase64(buf \o hmac(key, buf)),
                         key |-> key, version |-> version, stateBytes |-> s,
                         schemaBytes |-> so, inputSchemaBytes |-> si, createdAt |-> t]
    /\ UNCHANGED <<tokOut, pipeVars, ocVars, transport, httpVars>>

\* unpackStateToken under some key, TTL and clock
TokUnpack ==
    /\ tokCase.kind # "none"
    /\ ~tokOut.done
    /\ \E key \in SigningKeys, ttl \in TokenTtls, age \in Ages :
          LET now == tokCase.createdAt + age IN
          tokOut' = [done |-> TRUE, key |-> key, ttl |-> ttl, now |-> now,
                     r |-> unpackStateToken(tokCase.token, key, ttl, now)]
    /\ UNCHANGED <<tokCase, pipeVars, ocVars, transport, httpVars>>

\* ------------------------------------------------------------------------
\* HTTP transport (src/http/index.ts, src/http/dispatch.ts) and its client
\* (src/client/stream.ts).  One stream session of a method without header;
\* the handler state is the number of calls made so far, serialized as one
\* byte.
\* ------------------------------------------------------------------------
HttpMethods == {"p", "x", "xo"}
signingKey == <<11>>
\* maxStreamResponseBytes is not set
NoBudget == -1

\* a batch of a response body: data / log / error / token, its rows and the
\* stream_state metadata it carries (<<>> for none)
HB(k, rows, token) == [k |-> k, rows |-> rows, token |-> token]

\* req: of /init what the method declares as header, of /exchange how the
\* token of the request was; header: a header IPC stream precedes the body
NoResp == [seq |-> 0, kind |-> "none", req |-> "none", status |-> 0,
           batches |-> <<>>, calls |-> 0, fn |-> "none", fin |-> FALSE,
           before |-> -1, after |-> -1, lastCall |-> 0, expired |-> FALSE,
           header |-> FALSE]
\* the first /exchange request of the session that reached a handler
\* function, kept to be sent once more
NoOld == [set |-> FALSE, token |-> <<>>, input |-> 0, status |-> 0,
          data |-> <<>>, after |-> -1, replayed |-> FALSE]
\* the second iteration of the session: it ran, it sent a request, the data
\* batches it yielded
NoAgain == [ran |-> FALSE, sent |-> FALSE, yielded |-> 0]
\* token: _stateToken; done: the iterator of a producer session returned
NoCli == [live |-> FALSE, m |-> "", token |-> <<>>, rounds |-> 0, good |-> 0,
          prog |-> <<>>, got |-> <<>>, old |-> NoOld, done |-> FALSE,
          again |-> NoAgain]

HttpIdle ==
    /\ hCfg = [tokenTtl |-> 0, maxBytes |-> NoBudget]
    /\ hNow = 0
    /\ hCli = NoCli
    /\ hResp = NoResp

HttpInit ==
    /\ hCfg \in [tokenTtl : TokenTtls, maxBytes : {NoBudget, 1}]
    /\ hNow \in CreatedAts
    /\ hCli = NoCli
    /\ hResp = NoResp

\* stateSerializer.serialize / deserialize
serialize(n) == <<n>>
deserialize(stateBytes) == stateBytes[1]

\* serializeSchema of the output schema and of the input schema
outSchemaBytes == <<200>>
inSchemaBytes(m) == IF isProducer(m) THEN <<>> ELSE <<200>>

\* variant of the token that always packs the initial state
stateToken_initial(m, n) ==
    packStateToken(serialize(0), outSchemaBytes, inSchemaBytes(m), signingKey, hNow)

\* the token the server packs around state n
stateToken(m, n) ==
    packStateToken(serialize(n), outSchemaBytes, inSchemaBytes(m), signingKey, hNow)

\* what a handler function may call on its collector over HTTP, and the
\* outcomes of one call of it
HttpCalls == {"emit", "emit0", "finish", "throw"}
HttpResults(producerMode) ==
    {Thrown(Run(NewCollector(producerMode), sc)) : sc \in Scripts(HttpCalls)}
\* one call of the produce function, one call of the exchange function
ProduceResults == HttpResults(TRUE)

\* The exchange function of the model: what it calls on its collector
\* depends on the state it is handed and on the input batch, and every
\* outcome is that of some input.
XScripts == << <<>>, <<"emit">>, <<"emit0">>, <<"finish">>, <<"throw">>,
              <<"emit", "emit">> >>
Inputs == 0..(Len(XScripts) - 1)
exchangeFn(n, input) ==
    Thrown(Run(NewCollector(FALSE), XScripts[((n + input) % Len(XScripts)) + 1]))

\* the batches of a collector as batches of the response body
RespBatches(c) == [i \in 1..Len(c.batches) |-> HB(c.batches[i].k, c.batches[i].rows, <<>>)]

\* emitted.batch.data.byteLength summed over the batches of a collector
RECURSIVE ByteLength(_)
ByteLength(bs) == IF bs = <<>> THEN 0 ELSE Head(bs).rows + ByteLength(Tail(bs))

Resp(status, batches, calls, fn, fin, after, lastCall) ==
    [status |-> status, batches |-> batches, calls |-> calls, fn |-> fn,
     fin |-> fin, after |-> after, lastCall |-> lastCall, ok |-> TRUE,
     header |-> FALSE]
\* the producer has not returned yet
Running == [status |-> 0, batches |-> <<>>, calls |-> 0, fn |-> "none",
            fin |-> FALSE, after |-> -1, lastCall |-> 0, ok |-> FALSE,
            header |-> FALSE]

\* variant of produceStreamResponse that tests the budget at the top of the
\* loop, before the call
RECURSIVE produceStreamResponse_budgetAtTop(_, _, _, _, _, _)
produceStreamResponse_budgetAtTop(m, n, plan, all, bytes, calls) ==
    IF ~isProducer(m)
    THEN Resp(200, all \o <<HB("error", 0, <<>>)>>, calls, "none", FALSE, n, 0)
    ELSE IF hCfg.maxBytes # NoBudget /\ bytes >= hCfg.maxBytes
    THEN Resp(200, all \o <<HB("token", 0, stateToken(m, n))>>,
              calls, "produce", FALSE, n, 0)
    ELSE IF plan = <<>> THEN Running
    ELSE LET r == Head(plan)
             all2 == all \o RespBatches(r.c)
             bytes2 == bytes + ByteLength(r.c.batches)
         IN
         IF r.threw
         THEN Resp(200, all \o <<HB("error", 0, <<>>)>>, calls + 1, "produce", FALSE, n, 0)
         ELSE IF r.c.finished
         THEN Resp(200, all2, calls + 1, "produce", TRUE, n + 1, Len(r.c.batches))
         ELSE produceStreamResponse_budgetAtTop(m, n + 1, Tail(plan), all2, bytes2, calls + 1)

\* variant of produceStreamResponse that tests the budget before finish
RECURSIVE produceStreamResponse_budgetFirst(_, _, _, _, _, _)
produceStreamResponse_budgetFirst(m, n, plan, all, bytes, calls) ==
    IF ~isProducer(m)
    THEN Resp(200, all \o <<HB("error", 0, <<>>)>>, calls, "none", FALSE, n, 0)
    ELSE IF plan = <<>> THEN Running
    ELSE LET r == Head(plan)
             all2 == all \o RespBatches(r.c)
             bytes2 == bytes + ByteLength(r.c.batches)
         IN
         IF r.threw
         THEN Resp(200, all \o <<HB("error", 0, <<>>)>>, calls + 1, "produce", FALSE, n, 0)
         ELSE IF hCfg.maxBytes # NoBudget /\ bytes2 >= hCfg.maxBytes
         THEN Resp(200, all2 \o <<HB("token", 0, stateToken(m, n + 1))>>,
                   calls + 1, "produce", r.c.finished, n + 1, Len(r.c.batches))
         ELSE IF r.c.finished
         THEN Resp(200, all2, calls + 1, "produce", TRUE, n + 1, Len(r.c.batches))
         ELSE produceStreamResponse_budgetFirst(m, n + 1, Tail(plan), all2, bytes2, calls + 1)

\* produceStreamResponse: call the produce function until it finishes,
\* throws, or the byte budget is used up.  plan lists the outcomes of the
\* calls; a method without a produce function fails at the first call.
RECURSIVE produceStreamResponse(_, _, _, _, _, _)
produceStreamResponse(m, n, plan, all, bytes, calls) ==
    IF ~isProducer(m)
    THEN Resp(200, all \o <<HB("error", 0, <<>>)>>, calls, "none", FALSE, n, 0)
    ELSE IF plan = <<>> THEN Running
    ELSE LET r == Head(plan)
             all2 == all \o RespBatches(r.c)
             bytes2 == bytes + ByteLength(r.c.batches)
         IN
         IF r.threw
         THEN Resp(200, all \o <<HB("error", 0, <<>>)>>, calls + 1, "produce", FALSE, n, 0)
         ELSE IF r.c.finished
         THEN Resp(200, all2, calls + 1, "produce", TRUE, n + 1, Len(r.c.batches))
         ELSE IF hCfg.maxBytes # NoBudget /\ bytes2 >= hCfg.maxBytes
         THEN Resp(200, all2 \o <<HB("token", 0, stateToken(m, n + 1))>>,
                   calls + 1, "produce", FALSE, n + 1, Len(r.c.batches))
         ELSE produceStreamResponse(m, n + 1, Tail(plan), all2, bytes2, calls + 1)

\* what the method declares as header: no header schema, a headerInit that
\* returns, a headerInit that throws
Headers == {"none", "ok", "throws"}

\* concatBytes(headerBytes, dataBytes): the header IPC stream goes before
\* the data stream
concatBytes(headerBytes, resp) == [resp EXCEPT !.header = headerBytes]

\* variant of httpDispatchStreamInit that calls the exchange function once
\* to fill the first response
httpDispatchStreamInit_eager(m, initThrows, hdr, plan) ==
    IF initThrows \/ hdr = "throws"
    THEN Resp(500, <<HB("error", 0, <<>>)>>, 0, "none", FALSE, -1, 0)
    ELSE IF effectiveProducer(m)
    THEN concatBytes(hdr = "ok", produceStreamResponse(m, 0, plan, <<>>, 0, 0))
    ELSE concatBytes(hdr = "ok",
                     Resp(200, <<HB("token", 0, stateToken(m, 1))>>, 1, "exchange",
                          FALSE, 1, 0))

\* httpDispatchStreamInit: run init and headerInit; a producer runs its
\* loop, an exchange gets a zero-row batch with the token of the initial
\* state
httpDispatchStreamInit(m, initThrows, hdr, plan) ==
    IF initThrows \/ hdr = "throws"
    THEN Resp(500, <<HB("error", 0, <<>>)>>, 0, "none", FALSE, -1, 0)
    ELSE IF effectiveProducer(m)
    THEN concatBytes(hdr = "ok", produceStreamResponse(m, 0, plan, <<>>, 0, 0))
    ELSE concatBytes(hdr = "ok",
                     Resp(200, <<HB("token", 0, stateToken(m, 0))>>, 0, "none",
                          FALSE, 0, 0))

\* variant of the exchange branch that rotates no token
exchangeRound_noToken(m, n, r) ==
    IF r.threw
    THEN Resp(500, <<HB("error", 0, <<>>)>>, 1, "exchange", FALSE, n, 0)
    ELSE Resp(200, RespBatches(r.c), 1, "exchange", r.c.finished, n + 1,
              Len(r.c.batches))

\* variant of the exchange branch that puts the token on the error batch
exchangeRound_tokenOnError(m, n, r) ==
    LET token == stateToken(m, n + 1) IN
    IF r.threw
    THEN Resp(500, <<HB("error", 0, token)>>, 1, "exchange", FALSE, n, 0)
    ELSE Resp(200,
              [i \in 1..Len(r.c.batches) |->
                 IF r.c.batches[i].rows > 0
                 THEN HB(r.c.batches[i].k, r.c.batches[i].rows, token)
                 ELSE HB(r.c.batches[i].k, r.c.batches[i].rows, <<>>)],
              1, "exchange", r.c.finished, n + 1, Len(r.c.batches))

\* the exchange branch of httpDispatchStreamExchange: one call of the
\* exchange function on an exchange collector; the rotated token is merged
\* into every emitted batch that has rows
exchangeRound(m, n, r) ==
    IF r.threw
    THEN Resp(500, <<HB("error", 0, <<>>)>>, 1, "exchange", FALSE, n, 0)
    ELSE LET token == stateToken(m, n + 1) IN
         Resp(200,
              [i \in 1..Len(r.c.batches) |->
                 IF r.c.batches[i].rows > 0
                 THEN HB(r.c.batches[i].k, r.c.batches[i].rows, token)
                 ELSE HB(r.c.batches[i].k, r.c.batches[i].rows, <<>>)],
              1, "exchange", r.c.finished, n + 1, Len(r.c.batches))

\* variant of httpDispatchStreamExchange that runs the handler whatever
\* the token is
httpDispatchStreamExchange_lax(m, tokenBase64, prog, input) ==
    IF effectiveProducer(m)
    THEN produceStreamResponse(m, 0, prog, <<>>, 0, 0)
    ELSE exchangeRound(m, 0, exchangeFn(0, input))

\* variant of httpDispatchStreamExchange that goes on from the state the
\* request before left, when there is one
httpDispatchStreamExchange_sticky(m, tokenBase64, prog, input) ==
    IF tokenBase64 = <<>>
    THEN Resp(400, <<HB("error", 0, <<>>)>>, 0, "none", FALSE, -1, 0)
    ELSE LET unpacked == unpackStateToken(tokenBase64, signingKey, hCfg.tokenTtl, hNow) IN
         IF unpacked.err # "none"
         THEN Resp(400, <<HB("error", 0, <<>>)>>, 0, "none", FALSE, -1, 0)
         ELSE LET n == IF hResp.after >= 0 THEN hResp.after
                       ELSE deserialize(unpacked.stateBytes) IN
              IF effectiveProducer(m)
              THEN produceStreamResponse(m, n, SubSeq(prog, n + 1, Len(prog)), <<>>, 0, 0)
              ELSE exchangeRound(m, n, exchangeFn(n, input))

\* httpDispatchStreamExchange, with createHttpHandler's catch block: a
\* missing token or one that does not unpack is an HttpRpcError, answered
\* with status 400 and one EXCEPTION batch.  The handler function is called
\* on the state the token carries: prog is the produce function, input the
\* batch of the request.
httpDispatchStreamExchange(m, tokenBase64, prog, input) ==
    IF tokenBase64 = <<>>
    THEN Resp(400, <<HB("error", 0, <<>>)>>, 0, "none", FALSE, -1, 0)
    ELSE LET unpacked == unpackStateToken(tokenBase64, signingKey, hCfg.tokenTtl, hNow) IN
         IF unpacked.err # "none"
         THEN Resp(400, <<HB("error", 0, <<>>)>>, 0, "none", FALSE, -1, 0)
         ELSE LET n == deserialize(unpacked.stateBytes) IN
              IF effectiveProducer(m)
              THEN produceStreamResponse(m, n, SubSeq(prog, n + 1, Len(prog)), <<>>, 0, 0)
              ELSE exchangeRound(m, n, exchangeFn(n, input))

\* the stream_state the client finds in a response body: that of the last
\* batch that carries one
RECURSIVE LastToken(_)
LastToken(bs) ==
    IF bs = <<>> THEN <<>>
    ELSE IF bs[Len(bs)].token # <<>> THEN bs[Len(bs)].token
    ELSE LastToken(SubSeq(bs, 1, Len(bs) - 1))

\* the token is validly signed by the server and older than the TTL
Expired(tokenBase64) ==
    LET u == unpackStateToken(tokenBase64, signingKey, 0, 0) IN
    /\ tokenBase64 # <<>>
    /\ hCfg.tokenTtl > 0
    /\ u.err = "none"
    /\ hNow - u.createdAt > hCfg.tokenTtl

\* the request and its response, as the history keeps them
Answered(kind, req, expired, before, resp) ==
    [seq |-> hResp.seq + 1, kind |-> kind, req |-> req, status |-> resp.status,
     batches |-> resp.batches, calls |-> resp.calls, fn |-> resp.fn,
     fin |-> resp.fin, before |-> before, after |-> resp.after,
     lastCall |-> resp.lastCall, expired |-> expired, header |-> resp.header]

\* the state a token carries, -1 if it does not unpack
Carried(tokenBase64) ==
    LET u == unpackStateToken(tokenBase64, signingKey, 0, 0) IN
    IF u.err = "none" /\ Len(u.stateBytes) = 1 THEN deserialize(u.stateBytes) ELSE -1

\* the token reaches the handler function
TokenOk(tokenBase64) ==
    /\ tokenBase64 # <<>>
    /\ unpackStateToken(tokenBase64, signingKey, hCfg.tokenTtl, hNow).err = "none"

\* the calls of the produce function that let the producer loop go on
Continues == {r \in ProduceResults : ~r.threw /\ ~r.c.finished}

\* a produce function: the outcome of its call on state 0, on state 1, ...
\* up to the call that finishes or throws
Progs ==
    UNION {{Append(plan, r) : plan \in [1..k -> Continues],
                             r \in ProduceResults \ Continues} :
           k \in 0..MaxRounds}

\* the data batches of a response body
DataOf(batches) ==
    LET IsData(b) == b.k = "data" IN SelectSeq(batches, IsData)

\* the rows of the data batches of a response body, without the metadata
Rows(batches) ==
    LET data == DataOf(batches) IN [i \in 1..Len(data) |-> data[i].rows]

\* the input batches worth telling apart for a request: only the exchange
\* function looks at its input
InputsFor(m, tokenOk) ==
    IF tokenOk /\ ~effectiveProducer(m) THEN Inputs ELSE {0}

\* POST {prefix}/{method}/init
HttpStreamInit ==
    /\ transport = "http"
    /\ ~hCli.live
    /\ hResp.seq = 0
    /\ \E m \in HttpMethods, initThrows \in BOOLEAN, hdr \in Headers :
       \E prog \in IF ~initThrows /\ isProducer(m) THEN Progs ELSE {<<>>} :
       \E resp \in {httpDispatchStreamInit(m, initThrows, hdr, prog)} :
          /\ resp.ok
          /\ hResp' = [Answered("init", "none", FALSE, -1, resp) EXCEPT !.req = hdr]
          /\ hCli' = [live |-> resp.status = 200, m |-> m,
                      token |-> LastToken(resp.batches), rounds |-> 0, good |-> 0,
                      prog |-> prog,
                      got |-> IF isProducer(m) THEN DataOf(resp.batches) ELSE <<>>,
                      old |-> NoOld,
                      done |-> effectiveProducer(m) /\ LastToken(resp.batches) = <<>>,
                      again |-> NoAgain]
    /\ UNCHANGED <<hCfg, hNow, transport, pipeVars, ocVars, tokVars>>

\* POST {prefix}/{method}/exchange with the token the client holds: an
\* exchange round, or the continuation of a producer
HttpExchange ==
    /\ transport = "http"
    /\ hCli.live
    /\ hCli.token # <<>> /\ ~hCli.done
    /\ hCli.rounds < MaxRounds
    /\ \E tokenOk \in {TokenOk(hCli.token)}, expired \in {Expired(hCli.token)},
          before \in {Carried(hCli.token)} :
       \E input \in InputsFor(hCli.m, tokenOk) :
       \E resp \in {httpDispatchStreamExchange(hCli.m, hCli.token, hCli.prog, input)} :
       \E token \in {LastToken(resp.batches)} :
          /\ resp.ok
          /\ hResp' = Answered("exchange", "held", expired, before, resp)
          /\ hCli' = [hCli EXCEPT
                        !.rounds = @ + 1,
                        !.good = IF resp.status = 200 /\ resp.fn = "exchange"
                                 THEN @ + 1 ELSE @,
                        !.token = IF token # <<>> THEN token ELSE @,
                        !.done = effectiveProducer(hCli.m) /\ token = <<>>,
                        !.got = IF isProducer(hCli.m) /\ resp.status = 200
                                THEN @ \o DataOf(resp.batches) ELSE @,
                        !.old = IF ~@.set /\ tokenOk
                                THEN [set |-> TRUE, token |-> hCli.token,
                                      input |-> input, status |-> resp.status,
                                      data |-> Rows(resp.batches),
                                      after |-> resp.after, replayed |-> FALSE]
                                ELSE @]
    /\ UNCHANGED <<hCfg, hNow, transport, pipeVars, ocVars, tokVars>>

Damages == {"missing", "too short", "tampered", "version", "truncated"}

\* the ways a token is damaged before it is submitted: a flipped bit in the
\* version, the creation time, the state length, the last payload byte or
\* the first or last byte of the MAC
Damaged(tokenBase64, how) ==
    LET bytes == fromBase64(tokenBase64)
        payload == SubSeq(bytes, 1, Len(bytes) - HMAC_LEN)
        old == [payload EXCEPT ![1] = TOKEN_VERSION - 1]
        short == SubSeq(payload, 1, Len(payload) - 1)
    IN CASE how = "missing" -> {<<>>}
         [] how = "too short" ->
              {toBase64(SubSeq(bytes, 1, n)) : n \in {1, MIN_TOKEN_LEN - 1}}
         [] how = "tampered" ->
              {toBase64(FlipBit(bytes, i, k)) :
                 i \in {1, 2, 10, Len(payload), Len(payload) + 1, Len(bytes)},
                 k \in {0, 7}}
         [] how = "version" -> {toBase64(old \o hmac(signingKey, old))}
         [] how = "truncated" -> {toBase64(short \o hmac(signingKey, short))}

\* POST {prefix}/{method}/exchange with no token or a damaged one
HttpBadExchange ==
    /\ transport = "http"
    /\ hCli.live
    /\ hCli.token # <<>> /\ ~hCli.done
    /\ hCli.rounds < MaxRounds
    \* a rejected request changes nothing on the server and leaves the session
    \* its token: a second one right after it meets what the first one met
    /\ hResp.req \notin Damages
    /\ \E before \in {Carried(hCli.token)} :
       \E how \in Damages :
       \E bad \in Damaged(hCli.token, how) :
       \E expired \in {Expired(bad)} :
       \E input \in InputsFor(hCli.m, ~effectiveProducer(hCli.m) /\ TokenOk(bad)) :
       \E resp \in {httpDispatchStreamExchange(hCli.m, bad, hCli.prog, input)} :
          /\ resp.ok
          /\ hResp' = Answered("exchange", how, expired, before, resp)
          /\ hCli' = [hCli EXCEPT !.rounds = @ + 1]
    /\ UNCHANGED <<hCfg, hNow, transport, pipeVars, ocVars, tokVars>>

\* POST {prefix}/{method}/exchange once more with a token and an input that
\* were sent before, whatever was served since
HttpReplay ==
    /\ transport = "http"
    /\ hCli.old.set
    /\ ~hCli.old.replayed
    /\ \E expired \in {Expired(hCli.old.token)}, before \in {Carried(hCli.old.token)} :
       \E resp \in {httpDispatchStreamExchange(hCli.m, hCli.old.token, hCli.prog,
                                                hCli.old.input)} :
          /\ resp.ok
          /\ hResp' = Answered("exchange", "replay", expired, before, resp)
          /\ hCli' = [hCli EXCEPT !.old.replayed = TRUE]
    /\ UNCHANGED <<hCfg, hNow, transport, pipeVars, ocVars, tokVars>>

\* the session of a producer is iterated once more after its iterator
\* returned: _pendingBatches is empty; without a token the iterator returns
\* at once, with one it sends the continuation request of the token it kept
HttpIterateAgain ==
    /\ transport = "http"
    /\ hCli.live /\ isProducer(hCli.m)
    /\ hCli.done /\ hResp.status = 200
    /\ ~hCli.again.ran
    /\ IF hCli.token = <<>>
       THEN /\ hCli' = [hCli EXCEPT !.again = [ran |-> TRUE, sent |-> FALSE, yielded |-> 0]]
            /\ UNCHANGED hResp
       ELSE \E expired \in {Expired(hCli.token)}, before \in {Carried(hCli.token)} :
            \E resp \in {httpDispatchStreamExchange(hCli.m, hCli.token, hCli.prog, 0)} :
            \E token \in {LastToken(resp.batches)} :
               /\ resp.ok
               /\ hResp' = Answered("exchange", "again", expired, before, resp)
               /\ hCli' = [hCli EXCEPT
                             !.token = IF token # <<>> THEN token ELSE @,
                             !.done = token = <<>>,
                             !.got = IF resp.status = 200
                                     THEN @ \o DataOf(resp.batches) ELSE @,
                             !.again = [ran |-> TRUE, sent |-> TRUE,
                                        yielded |-> IF resp.status = 200
                                                    THEN Len(DataOf(resp.batches))
                                                    ELSE 0]]
    /\ UNCHANGED <<hCfg, hNow, transport, pipeVars, ocVars, tokVars>>

\* a second passes
HttpTick ==
    /\ transport = "http"
    /\ hCli.live
    /\ \E t0 \in CreatedAts : hNow < t0 + MaxTtl + 1
    /\ hNow' = hNow + 1
    /\ UNCHANGED <<hCfg, hCli, hResp, transport, pipeVars, ocVars, tokVars>>

\* ------------------------------------------------------------------------
\* IpcStreamReader (src/wire/reader.ts) on a channel q with reader state r
\* ------------------------------------------------------------------------
\* readStream() can return: a whole stream is buffered, or the channel ended
CanReadStream(q, closed) == HasStream(q) \/ closed \/ (q # <<>> /\ Head(q).k # "S")
\* the message at the head cannot open a stream
BadOpen(q) == q # <<>> /\ Head(q).k # "S"
\* readStream() returns null
StreamEof(q, closed) == ~HasStream(q) /\ closed
StreamBatches(q) == SubSeq(q, 2, FirstE(q) - 1)
StreamRest(q) == Tail2(q, FirstE(q))
\* openNextStream() can return
CanOpen(q, closed) == q # <<>> \/ closed
\* readNextBatch() can return
CanReadBatch(q, closed, r) == r = "ended" \/ q # <<>> \/ closed
\* readNextBatch() returns null without consuming anything
BatchNull(q, closed, r) == r = "ended" \/ (q = <<>> /\ closed)
\* readNextBatch() meets a schema message inside a stream
BadBatch(q, r) == r # "ended" /\ q # <<>> /\ Head(q).k = "S"

Foreign(frames, id) == \E i \in 1..Len(frames) : frames[i].op # id

IsErr(f) == f.k = "B" /\ f.b = "err"
IsLog(f) == f.k = "B" /\ f.b = "log"
HasErr(frames) == \E i \in 1..Len(frames) : IsErr(frames[i])

\* ------------------------------------------------------------------------
\* pipeConnect: call(), stream(), ensureMethodCache(), acquireBusy()
\* ------------------------------------------------------------------------
NewSess(id, m) == [exists |-> TRUE, op |-> id, m |-> m, closed |-> FALSE,
                   writer |-> FALSE, opened |-> FALSE, mode |-> "none",
                   rounds |-> 0, got |-> <<>>, end |-> "none"]

\* releaseBusy(): _busy = false, whoever calls it
releaseBusy(id, h) == /\ busy' = FALSE
                      /\ holders' = h \ {id}

\* The body of call() / stream() after its own acquireBusy() returned, up to
\* the first await on the reader.  id is the operation id, pcB, opB and resB
\* the task maps and h the holders before the step.
ProceedOp(t, id, pcB, opB, resB, h) ==
    LET o == opB[t] IN
    IF o.kind = "call" THEN
        IF o.m \notin Methods
        THEN \* throw Unknown method; finally releaseBusy()
             /\ busy' = FALSE /\ holders' = h
             /\ pc' = [pcB EXCEPT ![t] = "idle"]
             /\ op' = [opB EXCEPT ![t] = NoOp]
             /\ res' = [resB EXCEPT ![t] = "unknown"]
             /\ UNCHANGED <<c2s, nextSid, sess>>
        ELSE /\ busy' = TRUE /\ holders' = h \cup {id}
             /\ c2s' = c2s \o buildRequestIpc(id, o.m, nextSid)
             /\ nextSid' = nextSid + 1
             /\ pc' = [pcB EXCEPT ![t] = "call_wait"]
             /\ op' = [opB EXCEPT ![t] = [o EXCEPT !.id = id]]
             /\ res' = resB
             /\ UNCHANGED sess
    ELSE
        IF o.m \notin Methods
        THEN \* throw Unknown method; catch: send an empty stream, read one
             /\ busy' = TRUE /\ holders' = h \cup {id}
             /\ c2s' = c2s \o emptyIpcStream(id, nextSid)
             /\ nextSid' = nextSid + 1
             /\ pc' = [pcB EXCEPT ![t] = "scatch_wait"]
             /\ op' = [opB EXCEPT ![t] = [o EXCEPT !.id = id, !.err = "unknown"]]
             /\ res' = resB
             /\ UNCHANGED sess
        ELSE /\ busy' = TRUE /\ holders' = h \cup {id}
             /\ c2s' = c2s \o buildRequestIpc(id, o.m, nextSid)
             /\ nextSid' = nextSid + 1
             /\ IF HasHeader(o.m)
                THEN /\ pc' = [pcB EXCEPT ![t] = "hdr_wait"]
                     /\ op' = [opB EXCEPT ![t] = [o EXCEPT !.id = id]]
                     /\ res' = resB
                     /\ UNCHANGED sess
                ELSE \* the session owns the lock from here on
                     /\ pc' = [pcB EXCEPT ![t] = "idle"]
                     /\ op' = [opB EXCEPT ![t] = NoOp]
                     /\ res' = [resB EXCEPT ![t] = "session"]
                     /\ sess' = NewSess(id, o.m)

\* acquireBusy() returned without throwing: ensureMethodCache() sends the
\* __describe__ request first when the cache is empty.
Acquired(t, pcB, opB, resB, h) ==
    /\ nextOp' = nextOp + 1
    /\ IF ~methodCache
       THEN /\ busy' = TRUE /\ holders' = h \cup {nextOp}
            /\ c2s' = c2s \o buildRequestIpc(nextOp, DESCRIBE_METHOD_NAME, nextSid)
            /\ nextSid' = nextSid + 1
            /\ pc' = [pcB EXCEPT ![t] = "desc_wait"]
            /\ op' = [opB EXCEPT ![t] = [opB[t] EXCEPT !.id = nextOp]]
            /\ res' = resB
            /\ UNCHANGED sess
       ELSE ProceedOp(t, nextOp, pcB, opB, resB, h)

\* acquireBusy() as entered by task t for a new operation
acquireBusy(t, kind, m) ==
    LET o == [NoOp EXCEPT !.kind = kind, !.m = m] IN
    IF drainPromise = "pending"
    THEN \* await _drainPromise
         /\ drainWaiters' = Append(drainWaiters, t)
         /\ pc' = [pc EXCEPT ![t] = "acq_wait"]
         /\ op' = [op EXCEPT ![t] = [o EXCEPT !.waited = TRUE]]
         /\ UNCHANGED <<c2s, busy, drainPromise, res, sess, holders, nextOp,
                        nextSid, busyFail>>
    ELSE IF busy
    THEN \* throw "Pipe transport is busy"
         /\ drainPromise' = "none"
         /\ res' = [res EXCEPT ![t] = "busy"]
         /\ busyFail' = [seen |-> TRUE, draining |-> dpc # "none"]
         /\ UNCHANGED <<c2s, busy, drainWaiters, pc, op, sess, holders, nextOp,
                        nextSid>>
    ELSE /\ drainPromise' = "none"
         /\ Acquired(t, pc, [op EXCEPT ![t] = o], res, holders)
         /\ UNCHANGED <<drainWaiters, busyFail>>

\* A task starts call(m) or stream(m)
StartOp(t, kind, m) ==
    /\ ~desync /\ ~cliClosed
    /\ pc[t] = "idle"
    /\ ops["main"] + ops["aux"] < MaxOps
    /\ t = "aux" => ops[t] < MaxAux
    /\ ops' = [ops EXCEPT ![t] = @ + 1]
    /\ acquireBusy(t, kind, m)
    /\ UNCHANGED <<s2c, c2sClosed, s2cClosed, methodCache, cliClosed, crd, dpc,
                   srvPc, srd, srvReq, srvPrev, srvGhost, errSeen, foreign, desync>>

Call(t) ==
    \E m \in UnaryMethods \cup (IF t = "main" THEN {Unknown} ELSE {}) :
        StartOp(t, "call", m)

Stream ==
    \E m \in StreamMethods \cup {Unknown} : StartOp("main", "stream", m)

\* ensureMethodCache(): the __describe__ response arrived
DescribeDone(t) ==
    /\ ~desync
    /\ pc[t] = "desc_wait"
    /\ CanReadStream(s2c, s2cClosed)
    /\ IF BadOpen(s2c) THEN Halt
       ELSE IF StreamEof(s2c, s2cClosed)
       THEN \* throw "EOF reading __describe__ response"; finally releaseBusy()
            /\ releaseBusy(op[t].id, holders)
            /\ pc' = [pc EXCEPT ![t] = "idle"]
            /\ op' = [op EXCEPT ![t] = NoOp]
            /\ res' = [res EXCEPT ![t] = "eof"]
            /\ UNCHANGED <<c2s, s2c, c2sClosed, s2cClosed, drainPromise,
                           drainWaiters, methodCache, cliClosed, crd, sess, dpc,
                           srvPc, srd, srvReq, srvPrev, nextOp, nextSid, ops,
                           srvGhost, errSeen, busyFail, foreign, desync>>
       ELSE /\ s2c' = StreamRest(s2c)
            /\ crd' = "ended"
            /\ foreign' = (foreign \/ Foreign(SubSeq(s2c, 1, FirstE(s2c)), op[t].id))
            /\ methodCache' = TRUE
            \* finally releaseBusy(); then the acquireBusy() of call()/stream()
            /\ nextOp' = nextOp + 1
            /\ ProceedOp(t, nextOp, pc, op, res, holders \ {op[t].id})
            /\ UNCHANGED <<c2sClosed, s2cClosed, drainPromise, drainWaiters,
                           cliClosed, dpc, srvPc, srd, srvReq, srvPrev, ops,
                           srvGhost, errSeen, busyFail, desync>>

\* call(): readStream() is reset().open() followed by next() until done.
\* The open step: the schema message of the response arrived.
CallOpen(t) ==
    /\ ~desync
    /\ pc[t] = "call_wait"
    /\ CanOpen(s2c, s2cClosed)
    /\ IF BadOpen(s2c) THEN Halt
       ELSE /\ IF s2c = <<>>
               THEN \* throw EOF reading response; finally releaseBusy()
                    /\ releaseBusy(op[t].id, holders)
                    /\ pc' = [pc EXCEPT ![t] = "idle"]
                    /\ op' = [op EXCEPT ![t] = NoOp]
                    /\ res' = [res EXCEPT ![t] = "eof"]
                    /\ UNCHANGED <<s2c, crd, foreign>>
               ELSE /\ s2c' = Tail(s2c)
                    /\ crd' = "open"
                    /\ foreign' = (foreign \/ Head(s2c).op # op[t].id)
                    /\ pc' = [pc EXCEPT ![t] = "call_read"]
                    /\ UNCHANGED <<busy, holders, op, res>>
            /\ UNCHANGED <<c2s, c2sClosed, s2cClosed, drainPromise, drainWaiters,
                           methodCache, cliClosed, sess, dpc, srvPc, srd, srvReq,
                           srvPrev, nextOp, nextSid, ops, srvGhost, errSeen,
                           busyFail, desync>>

\* the batches the next() loop of readStream() collects, and what it leaves
CallCanRead == crd = "ended" \/ HasStream(s2c) \/ s2cClosed
CallBatches == IF crd = "ended" THEN <<>>
               ELSE IF HasStream(s2c) THEN SubSeq(s2c, 1, FirstE(s2c) - 1)
               ELSE s2c
CallTaken == IF crd = "ended" THEN <<>>
             ELSE IF HasStream(s2c) THEN SubSeq(s2c, 1, FirstE(s2c))
             ELSE s2c
CallRest == IF crd = "ended" THEN s2c
            ELSE IF HasStream(s2c) THEN StreamRest(s2c)
            ELSE <<>>

\* call(): the next() loop of readStream() reached the end of the stream;
\* dispatchLogOrError on the batches; finally releaseBusy()
CallDone(t) ==
    /\ ~desync
    /\ pc[t] = "call_read"
    /\ CallCanRead
    /\ IF \E i \in 1..Len(CallBatches) : CallBatches[i].k = "S" THEN Halt
       ELSE /\ releaseBusy(op[t].id, holders)
            /\ pc' = [pc EXCEPT ![t] = "idle"]
            /\ op' = [op EXCEPT ![t] = NoOp]
            /\ s2c' = CallRest
            /\ crd' = "ended"
            /\ foreign' = (foreign \/ Foreign(CallTaken, op[t].id))
            /\ res' = [res EXCEPT ![t] =
                         IF HasErr(CallBatches) THEN "remote" ELSE "ok"]
            /\ errSeen' = IF HasErr(CallBatches)
                          THEN errSeen \cup {op[t].id} ELSE errSeen
            /\ UNCHANGED <<c2s, c2sClosed, s2cClosed, drainPromise, drainWaiters,
                           methodCache, cliClosed, sess, dpc, srvPc, srd, srvReq,
                           srvPrev, nextOp, nextSid, ops, srvGhost, busyFail,
                           desync>>

\* stream(): the header stream arrived
HeaderDone ==
    LET t == "main" IN
    /\ ~desync
    /\ pc[t] = "hdr_wait"
    /\ CanReadStream(s2c, s2cClosed)
    /\ IF BadOpen(s2c) THEN Halt
       ELSE IF ~StreamEof(s2c, s2cClosed) /\ HasErr(StreamBatches(s2c))
       THEN \* dispatchLogOrError throws; catch: send an empty input stream
            \* and read one more stream from the server
            /\ s2c' = StreamRest(s2c)
            /\ crd' = "ended"
            /\ foreign' = (foreign \/ Foreign(SubSeq(s2c, 1, FirstE(s2c)), op[t].id))
            /\ c2s' = c2s \o emptyIpcStream(op[t].id, nextSid)
            /\ nextSid' = nextSid + 1
            /\ pc' = [pc EXCEPT ![t] = "scatch_wait"]
            /\ op' = [op EXCEPT ![t] = [@ EXCEPT !.err = "remote"]]
            /\ errSeen' = errSeen \cup {op[t].id}
            /\ UNCHANGED <<c2sClosed, s2cClosed, busy, drainPromise, drainWaiters,
                           methodCache, cliClosed, res, sess, dpc, srvPc, srd,
                           srvReq, srvPrev, holders, nextOp, ops, srvGhost,
                           busyFail, desync>>
       ELSE \* header read (or null): the session takes the lock over
            /\ IF StreamEof(s2c, s2cClosed)
               THEN UNCHANGED <<s2c, crd, foreign>>
               ELSE /\ s2c' = StreamRest(s2c)
                    /\ crd' = "ended"
                    /\ foreign' = (foreign \/ Foreign(SubSeq(s2c, 1, FirstE(s2c)), op[t].id))
            /\ sess' = NewSess(op[t].id, op[t].m)
            /\ pc' = [pc EXCEPT ![t] = "idle"]
            /\ op' = [op EXCEPT ![t] = NoOp]
            /\ res' = [res EXCEPT ![t] = "session"]
            /\ UNCHANGED errSeen
            /\ UNCHANGED <<c2s, c2sClosed, s2cClosed, busy, drainPromise,
                           drainWaiters, methodCache, cliClosed, dpc, srvPc, srd,
                           srvReq, srvPrev, holders, nextOp, nextSid, ops,
                           srvGhost, busyFail, desync>>

\* stream(): the read of the catch block returned; releaseBusy(); throw e
StreamCatchDone ==
    LET t == "main" IN
    /\ ~desync
    /\ pc[t] = "scatch_wait"
    /\ CanReadStream(s2c, s2cClosed)
    /\ IF BadOpen(s2c) THEN Halt
       ELSE /\ IF StreamEof(s2c, s2cClosed)
               THEN UNCHANGED <<s2c, crd, foreign>>
               ELSE /\ s2c' = StreamRest(s2c)
                    /\ crd' = "ended"
                    /\ foreign' = (foreign \/ Foreign(SubSeq(s2c, 1, FirstE(s2c)), op[t].id))
            /\ releaseBusy(op[t].id, holders)
            /\ pc' = [pc EXCEPT ![t] = "idle"]
            /\ res' = [res EXCEPT ![t] = op[t].err]
            /\ op' = [op EXCEPT ![t] = NoOp]
            /\ UNCHANGED errSeen
            /\ UNCHANGED <<c2s, c2sClosed, s2cClosed, drainPromise, drainWaiters,
                           methodCache, cliClosed, sess, dpc, srvPc, srd, srvReq,
                           srvPrev, nextOp, nextSid, ops, srvGhost, busyFail,
                           desync>>


\* ------------------------------------------------------------------------
\* PipeStreamSession (src/client/pipe.ts)
\* ------------------------------------------------------------------------
cliRest == <<c2sClosed, s2cClosed, drainPromise, drainWaiters, methodCache,
             cliClosed, srvPc, srd, srvReq, srvPrev, nextOp, ops, srvGhost,
             busyFail, desync>>

tick(o) == F("B", o, "in", "", 0)
eos(o) == F("E", o, "", "", 0)

\* exchange(input): up to the first await
Exchange ==
    /\ ~desync /\ ~cliClosed
    /\ pc["main"] = "idle"
    /\ sess.exists /\ sess.mode \in {"none", "ex"} /\ ~isProducer(sess.m)
    /\ sess.rounds < MaxRounds
    /\ IF sess.closed
       THEN \* throw "Stream session is closed"
            /\ res' = [res EXCEPT !["main"] = "closed"]
            /\ sess' = [sess EXCEPT !.rounds = @ + 1]
            /\ UNCHANGED <<c2s, nextSid, pc>>
       ELSE \* lazy-open the input writer, write one batch, _ensureOutputStream
            /\ c2s' = c2s \o (IF sess.writer THEN <<>>
                              ELSE <<F("S", sess.op, "input", "", nextSid)>>)
                          \o <<tick(sess.op)>>
            /\ nextSid' = IF sess.writer THEN nextSid ELSE nextSid + 1
            /\ sess' = [sess EXCEPT !.writer = TRUE, !.opened = TRUE,
                                    !.mode = "ex", !.rounds = @ + 1]
            /\ pc' = [pc EXCEPT !["main"] =
                        IF sess.opened THEN "ex_read_wait" ELSE "ex_open_wait"]
            /\ UNCHANGED res
    /\ UNCHANGED <<s2c, busy, crd, op, dpc, holders, foreign>>
    /\ UNCHANGED <<cliRest, errSeen>>

\* _ensureOutputStream() inside exchange(): openNextStream() returned
ExchangeOpen ==
    /\ ~desync
    /\ pc["main"] = "ex_open_wait"
    /\ CanOpen(s2c, s2cClosed)
    /\ IF BadOpen(s2c) THEN Halt
       ELSE /\ IF s2c = <<>>
               THEN \* throw "Expected output stream but got EOF" (no cleanup)
                    /\ pc' = [pc EXCEPT !["main"] = "idle"]
                    /\ res' = [res EXCEPT !["main"] = "eof"]
                    /\ UNCHANGED <<s2c, crd, foreign>>
               ELSE /\ s2c' = Tail(s2c)
                    /\ crd' = "open"
                    /\ foreign' = (foreign \/ Head(s2c).op # sess.op)
                    /\ pc' = [pc EXCEPT !["main"] = "ex_read_wait"]
                    /\ UNCHANGED res
            /\ UNCHANGED <<c2s, busy, op, sess, dpc, holders, nextSid>>
            /\ UNCHANGED <<cliRest, errSeen>>

\* _readOutputBatch() inside exchange(): readNextBatch() returned
ExchangeRead ==
    /\ ~desync
    /\ pc["main"] = "ex_read_wait"
    /\ CanReadBatch(s2c, s2cClosed, crd)
    /\ IF BadBatch(s2c, crd) THEN Halt
       ELSE /\ IF BatchNull(s2c, s2cClosed, crd)
               THEN \* the output stream has ended: return []
                    /\ pc' = [pc EXCEPT !["main"] = "idle"]
                    /\ res' = [res EXCEPT !["main"] = "ok"]
                    /\ UNCHANGED <<c2s, s2c, crd, sess, foreign>>
               ELSE /\ s2c' = Tail(s2c)
                    /\ foreign' = (foreign \/ Head(s2c).op # sess.op)
                    /\ IF Head(s2c).k = "E"
                       THEN /\ crd' = "ended"
                            /\ pc' = [pc EXCEPT !["main"] = "idle"]
                            /\ res' = [res EXCEPT !["main"] = "ok"]
                            /\ UNCHANGED <<c2s, sess>>
                       ELSE IF IsLog(Head(s2c))
                       THEN UNCHANGED <<c2s, crd, pc, res, sess>>
                       ELSE IF IsErr(Head(s2c))
                       THEN \* dispatchLogOrError throws; _cleanup(): close the
                            \* input stream, then drain the output
                            /\ sess' = [sess EXCEPT !.closed = TRUE, !.writer = FALSE,
                                                    !.end = "remote"]
                            /\ c2s' = c2s \o <<eos(sess.op)>>
                            /\ pc' = [pc EXCEPT !["main"] = "cleanup_wait"]
                            /\ UNCHANGED <<crd, res>>
                       ELSE \* a data batch: return its rows
                            /\ sess' = [sess EXCEPT !.got = Append(@, Head(s2c).n)]
                            /\ pc' = [pc EXCEPT !["main"] = "idle"]
                            /\ res' = [res EXCEPT !["main"] = "ok"]
                            /\ UNCHANGED <<c2s, crd>>
            /\ UNCHANGED <<busy, op, dpc, holders, nextSid>>
            /\ UNCHANGED cliRest
            /\ errSeen' = IF ~BatchNull(s2c, s2cClosed, crd) /\ IsErr(Head(s2c))
                          THEN errSeen \cup {sess.op} ELSE errSeen

\* _cleanup(): the drain loop; at the end releaseBusy() and exchange() throws
Cleanup ==
    /\ ~desync
    /\ pc["main"] = "cleanup_wait"
    /\ CanReadBatch(s2c, s2cClosed, crd)
    /\ IF BadBatch(s2c, crd) THEN Halt
       ELSE /\ IF BatchNull(s2c, s2cClosed, crd) \/ Head(s2c).k = "E"
               THEN /\ releaseBusy(sess.op, holders)
                    /\ pc' = [pc EXCEPT !["main"] = "idle"]
                    /\ res' = [res EXCEPT !["main"] = "remote"]
                    /\ IF BatchNull(s2c, s2cClosed, crd)
                       THEN UNCHANGED <<s2c, crd, foreign>>
                       ELSE /\ s2c' = Tail(s2c)
                            /\ crd' = "ended"
                            /\ foreign' = (foreign \/ Head(s2c).op # sess.op)
               ELSE /\ s2c' = Tail(s2c)
                    /\ foreign' = (foreign \/ Head(s2c).op # sess.op)
                    /\ UNCHANGED <<busy, holders, pc, res, crd>>
            /\ UNCHANGED <<c2s, op, sess, dpc, nextSid>>
            /\ UNCHANGED <<cliRest, errSeen>>

\* The async iterator: first next() of a for-await loop
IterStart ==
    /\ ~desync /\ ~cliClosed
    /\ pc["main"] = "idle"
    /\ sess.exists /\ sess.mode = "none" /\ isProducer(sess.m)
    /\ IF sess.closed
       THEN \* if (this._closed) return
            /\ sess' = [sess EXCEPT !.mode = "it"]
            /\ res' = [res EXCEPT !["main"] = "ok"]
            /\ UNCHANGED <<c2s, nextSid, pc>>
       ELSE \* open the tick writer, send one tick, _ensureOutputStream
            /\ c2s' = c2s \o <<F("S", sess.op, "empty", "", nextSid), tick(sess.op)>>
            /\ nextSid' = nextSid + 1
            /\ sess' = [sess EXCEPT !.writer = TRUE, !.opened = TRUE,
                                    !.mode = "it", !.rounds = 1]
            /\ pc' = [pc EXCEPT !["main"] =
                        IF sess.opened THEN "it_read_wait" ELSE "it_open_wait"]
            /\ UNCHANGED res
    /\ UNCHANGED <<s2c, busy, crd, op, dpc, holders, foreign>>
    /\ UNCHANGED <<cliRest, errSeen>>

\* entering the finally block of the iterator: close the input stream
IterFinally(err) ==
    /\ c2s' = c2s \o (IF sess.writer THEN <<eos(sess.op)>> ELSE <<>>)
    /\ sess' = [sess EXCEPT !.writer = FALSE]
    /\ op' = [op EXCEPT !["main"] = [NoOp EXCEPT !.err = err]]
    /\ pc' = [pc EXCEPT !["main"] = "it_fin_wait"]

\* _ensureOutputStream() inside the iterator
IterOpen ==
    /\ ~desync
    /\ pc["main"] = "it_open_wait"
    /\ CanOpen(s2c, s2cClosed)
    /\ IF BadOpen(s2c) THEN Halt
       ELSE /\ IF s2c = <<>>
               THEN \* throws ProtocolError inside the try
                    /\ IterFinally("eof")
                    /\ UNCHANGED <<s2c, crd, foreign>>
               ELSE /\ s2c' = Tail(s2c)
                    /\ crd' = "open"
                    /\ foreign' = (foreign \/ Head(s2c).op # sess.op)
                    /\ pc' = [pc EXCEPT !["main"] = "it_read_wait"]
                    /\ UNCHANGED <<c2s, sess, op>>
            /\ UNCHANGED <<busy, res, dpc, holders, nextSid>>
            /\ UNCHANGED <<cliRest, errSeen>>

\* _readOutputBatch() inside the iterator
IterRead ==
    /\ ~desync
    /\ pc["main"] = "it_read_wait"
    /\ CanReadBatch(s2c, s2cClosed, crd)
    /\ IF BadBatch(s2c, crd) THEN Halt
       ELSE /\ IF BatchNull(s2c, s2cClosed, crd)
               THEN /\ IterFinally("none")
                    /\ UNCHANGED <<s2c, crd, foreign>>
               ELSE /\ s2c' = Tail(s2c)
                    /\ foreign' = (foreign \/ Head(s2c).op # sess.op)
                    /\ IF Head(s2c).k = "E"
                       THEN \* server finished: break
                            /\ crd' = "ended"
                            /\ IterFinally("none")
                       ELSE IF IsLog(Head(s2c))
                       THEN UNCHANGED <<c2s, crd, pc, op, sess>>
                       ELSE IF IsErr(Head(s2c))
                       THEN /\ IterFinally("remote")
                            /\ UNCHANGED crd
                       ELSE \* yield the rows of the data batch
                            /\ sess' = [sess EXCEPT !.got = Append(@, Head(s2c).n)]
                            /\ pc' = [pc EXCEPT !["main"] = "it_yield"]
                            /\ UNCHANGED <<c2s, crd, op>>
            /\ UNCHANGED <<busy, res, dpc, holders, nextSid>>
            /\ UNCHANGED cliRest
            /\ errSeen' = IF ~BatchNull(s2c, s2cClosed, crd) /\ IsErr(Head(s2c))
                          THEN errSeen \cup {sess.op} ELSE errSeen

\* the loop body asks for the next row group: send one tick.  After a
\* close() in the loop body _inputWriter is null: write() throws a TypeError
\* inside the try and the finally block runs.
IterNext ==
    /\ ~desync /\ ~cliClosed
    /\ pc["main"] = "it_yield"
    /\ sess.rounds < MaxRounds + 1
    /\ IF sess.writer
       THEN /\ c2s' = c2s \o <<tick(sess.op)>>
            /\ sess' = [sess EXCEPT !.rounds = @ + 1]
            /\ pc' = [pc EXCEPT !["main"] = "it_read_wait"]
            /\ UNCHANGED op
       ELSE IterFinally("type")
    /\ UNCHANGED <<s2c, busy, crd, res, dpc, holders, nextSid, foreign>>
    /\ UNCHANGED <<cliRest, errSeen>>

\* the loop body leaves the loop (break): return() runs the finally block
IterBreak ==
    /\ ~desync /\ ~cliClosed
    /\ pc["main"] = "it_yield"
    /\ IterFinally("none")
    /\ UNCHANGED <<s2c, busy, crd, res, dpc, holders, nextSid, foreign>>
    /\ UNCHANGED <<cliRest, errSeen>>

\* the drain loop of the finally block; then _closed = true, releaseBusy()
IterDrain ==
    /\ ~desync
    /\ pc["main"] = "it_fin_wait"
    /\ CanReadBatch(s2c, s2cClosed, crd)
    /\ IF BadBatch(s2c, crd) THEN Halt
       ELSE /\ IF BatchNull(s2c, s2cClosed, crd) \/ Head(s2c).k = "E"
               THEN /\ releaseBusy(sess.op, holders)
                    /\ sess' = [sess EXCEPT !.closed = TRUE,
                                            !.end = IF op["main"].err = "none" THEN "ok"
                                                    ELSE op["main"].err]
                    /\ pc' = [pc EXCEPT !["main"] = "idle"]
                    /\ res' = [res EXCEPT !["main"] =
                                 IF op["main"].err = "none" THEN "ok" ELSE op["main"].err]
                    /\ op' = [op EXCEPT !["main"] = NoOp]
                    /\ IF BatchNull(s2c, s2cClosed, crd)
                       THEN UNCHANGED <<s2c, crd, foreign>>
                       ELSE /\ s2c' = Tail(s2c)
                            /\ crd' = "ended"
                            /\ foreign' = (foreign \/ Head(s2c).op # sess.op)
               ELSE /\ s2c' = Tail(s2c)
                    /\ foreign' = (foreign \/ Head(s2c).op # sess.op)
                    /\ UNCHANGED <<busy, holders, pc, res, op, sess, crd>>
            /\ UNCHANGED <<c2s, dpc, nextSid>>
            /\ UNCHANGED <<cliRest, errSeen>>


\* The drain promise of close() settles: finally releaseBusy().  Tasks
\* suspended in acquireBusy() resume in order; the first finds the lock free
\* and the others find it taken.
DrainSettled ==
    IF drainWaiters = <<>>
    THEN /\ releaseBusy(sess.op, holders)
         /\ drainPromise' = "resolved"
         /\ UNCHANGED <<c2s, drainWaiters, pc, op, res, sess, nextOp, nextSid,
                        busyFail>>
    ELSE LET w == Head(drainWaiters)
             late == {drainWaiters[i] : i \in 2..Len(drainWaiters)}
             pcB == [t \in Tasks |-> IF t \in late THEN "idle" ELSE pc[t]]
             opB == [t \in Tasks |-> IF t \in late THEN NoOp ELSE op[t]]
             resB == [t \in Tasks |-> IF t \in late THEN "busy" ELSE res[t]]
         IN /\ drainPromise' = "none"
            /\ drainWaiters' = <<>>
            /\ busyFail' = IF late = {} THEN busyFail
                           ELSE [seen |-> TRUE, draining |-> FALSE]
            /\ Acquired(w, pcB, opB, resB, holders \ {sess.op})

\* close(), called between operations or from the body of a for-await loop:
\* end the input side and start the background drain
Close ==
    /\ ~desync /\ ~cliClosed
    /\ pc["main"] \in {"idle", "it_yield"}
    /\ sess.exists
    /\ IF sess.closed THEN UNCHANGED vars
       ELSE /\ sess' = [sess EXCEPT !.closed = TRUE, !.writer = FALSE]
            /\ c2s' = c2s \o (IF sess.writer THEN <<eos(sess.op)>>
                              ELSE emptyIpcStream(sess.op, nextSid))
            /\ nextSid' = IF sess.writer THEN nextSid ELSE nextSid + 1
            /\ dpc' = IF sess.opened THEN "d_read" ELSE "d_open"
            /\ drainPromise' = "pending"
            /\ UNCHANGED <<s2c, c2sClosed, s2cClosed, busy, drainWaiters,
                           methodCache, cliClosed, crd, pc, op, res, srvPc, srd,
                           srvReq, srvPrev, holders, nextOp, ops, srvGhost,
                           errSeen, busyFail, foreign, desync>>

\* the drain of close(): openNextStream() returned
DrainOpen ==
    /\ ~desync
    /\ dpc = "d_open"
    /\ CanOpen(s2c, s2cClosed)
    /\ IF BadOpen(s2c) THEN Halt
       ELSE /\ IF s2c = <<>>
               THEN /\ dpc' = "none"
                    /\ DrainSettled
                    /\ UNCHANGED <<s2c, crd, foreign>>
               ELSE /\ s2c' = Tail(s2c)
                    /\ crd' = "open"
                    /\ foreign' = (foreign \/ Head(s2c).op # sess.op)
                    /\ dpc' = "d_read"
                    /\ UNCHANGED <<c2s, busy, drainPromise, drainWaiters, pc, op,
                                   res, sess, holders, nextOp, nextSid, busyFail>>
            /\ UNCHANGED <<c2sClosed, s2cClosed, methodCache, cliClosed, srvPc,
                           srd, srvReq, srvPrev, ops, srvGhost, errSeen, desync>>

\* the drain of close(): readNextBatch() returned
DrainRead ==
    /\ ~desync
    /\ dpc = "d_read"
    /\ CanReadBatch(s2c, s2cClosed, crd)
    /\ IF BadBatch(s2c, crd) THEN Halt
       ELSE /\ IF BatchNull(s2c, s2cClosed, crd) \/ Head(s2c).k = "E"
               THEN /\ dpc' = "none"
                    /\ DrainSettled
                    /\ IF BatchNull(s2c, s2cClosed, crd)
                       THEN UNCHANGED <<s2c, crd, foreign>>
                       ELSE /\ s2c' = Tail(s2c)
                            /\ crd' = "ended"
                            /\ foreign' = (foreign \/ Head(s2c).op # sess.op)
               ELSE /\ s2c' = Tail(s2c)
                    /\ foreign' = (foreign \/ Head(s2c).op # sess.op)
                    /\ UNCHANGED <<c2s, busy, drainPromise, drainWaiters, pc, op,
                                   res, sess, holders, nextOp, nextSid, busyFail,
                                   crd, dpc>>
            /\ UNCHANGED <<c2sClosed, s2cClosed, methodCache, cliClosed, srvPc,
                           srd, srvReq, srvPrev, ops, srvGhost, errSeen, desync>>

\* RpcClient.close(): writable.end()
ClientClose ==
    /\ ~desync /\ ~cliClosed
    /\ pc["main"] = "idle"
    /\ cliClosed' = TRUE
    /\ c2sClosed' = TRUE
    /\ UNCHANGED <<c2s, s2c, s2cClosed, busy, drainPromise, drainWaiters,
                   methodCache, crd, pc, op, res, sess, dpc, srvPc, srd, srvReq,
                   srvPrev, holders, nextOp, nextSid, ops, srvGhost, errSeen,
                   busyFail, foreign, desync>>

\* ------------------------------------------------------------------------
\* VgiRpcServer (src/server.ts), dispatchUnary, dispatchStream
\* ------------------------------------------------------------------------
cliVars == <<c2sClosed, busy, drainPromise, drainWaiters, methodCache,
             cliClosed, crd, pc, op, res, sess, dpc, holders, nextOp, nextSid,
             ops, errSeen, busyFail, foreign, desync>>

errBatch(o) == F("B", o, "err", "", 0)
\* variant of the error response without the error batch
errStream_noBatch(o, schema) == wireStream(o, schema, 0, <<>>)

\* writer.writeStream(schema, [buildErrorBatch(schema, error, ...)])
errStream(o, schema) == wireStream(o, schema, 0, <<errBatch(o)>>)

\* what one call of the produce / exchange function does, on the collector
\* dispatchStream hands it: new OutputCollector(outputSchema, effectiveProducer)
PipeCalls == {"emit", "finish", "throw"}
ProducerOutcomes == HandlerResults(TRUE, PipeCalls)
ExchangeOutcomes == HandlerResults(FALSE, PipeCalls)
Outcomes(m) == IF effectiveProducer(m) THEN ProducerOutcomes ELSE ExchangeOutcomes

\* seq: the data batches written, read: the input batches read in the data
\* loop, calls: the calls of the handler function, fn: the function called,
\* fin: the loop was left because the collector was finished
NoProduced == [op |-> 0, seq |-> <<>>, threw |-> FALSE, read |-> 0,
               calls |-> 0, fn |-> "none", fin |-> FALSE]

\* serveOne(): read one request stream and dispatch it, up to the first
\* await on the reader inside dispatchStream
serveOne ==
    /\ ~desync
    /\ srvPc = "serve"
    /\ CanReadStream(c2s, c2sClosed)
    /\ IF BadOpen(c2s) THEN Halt
       ELSE IF StreamEof(c2s, c2sClosed)
       THEN \* throw EOF; run() returns and the process ends
            /\ srvPc' = "exited"
            /\ s2cClosed' = TRUE
            /\ UNCHANGED <<c2s, s2c, srd, srvReq, srvPrev, srvGhost>>
            /\ UNCHANGED cliVars
       ELSE LET id == Head(c2s).op
                batches == StreamBatches(c2s)
                base == [NoReq EXCEPT !.seq = srvReq.seq + 1, !.op = id,
                                      !.sid = Head(c2s).n]
            IN
            /\ c2s' = StreamRest(c2s)
            /\ srd' = "ended"
            /\ srvPrev' = srvReq
            /\ UNCHANGED <<s2cClosed, srvOut>>
            /\ UNCHANGED cliVars
            /\ IF batches = <<>> \/ batches[1].b # "req"
               THEN \* no batch, or parseRequest throws ProtocolError
                    /\ s2c' = s2c \o errStream(id, "empty")
                    /\ srvReq' = [base EXCEPT !.kind = "bad", !.streams = 1]
                    /\ UNCHANGED <<srvPc, initFailed, produced>>
               ELSE IF batches[1].m = DESCRIBE_METHOD_NAME
               THEN /\ s2c' = s2c \o wireStream(id, "describe", 0,
                                                <<F("B", id, "desc", "", 0)>>)
                    /\ srvReq' = [base EXCEPT !.kind = "describe", !.streams = 1]
                    /\ UNCHANGED <<srvPc, initFailed, produced>>
               ELSE IF batches[1].m \notin Methods
               THEN /\ s2c' = s2c \o errStream(id, "empty")
                    /\ srvReq' = [base EXCEPT !.kind = "unknown", !.streams = 1]
                    /\ UNCHANGED <<srvPc, initFailed, produced>>
               ELSE IF batches[1].m \in UnaryMethods
               THEN \* dispatchUnary
                    /\ \E ok \in BOOLEAN, nl \in 0..MaxLogs :
                          /\ s2c' = s2c \o
                               (IF ok THEN wireStream(id, "result", 0,
                                              LogFrames(id, nl) \o <<F("B", id, "res", "", 0)>>)
                                ELSE errStream(id, "result"))
                          /\ srvReq' = [base EXCEPT !.kind = "unary", !.m = batches[1].m,
                                                    !.streams = 1,
                                                    !.fail = IF ok THEN "none" ELSE "handler"]
                    /\ UNCHANGED <<srvPc, initFailed, produced>>
               ELSE \* dispatchStream: init, then the header stream
                    LET m == batches[1].m
                        hs == IF HasHeader(m) THEN "header" ELSE "empty"
                        sreq == [base EXCEPT !.kind = "stream", !.m = m]
                    IN /\ produced' = [NoProduced EXCEPT !.op = id]
                       /\ \E initOk \in BOOLEAN, hdrOk \in BOOLEAN, nl \in 0..MaxLogs :
                        IF ~initOk
                        THEN /\ s2c' = s2c \o errStream(id, hs)
                             /\ srvReq' = [sreq EXCEPT !.streams = 1, !.fail = "init",
                                                       !.errSchema = hs]
                             /\ initFailed' = initFailed \cup {id}
                             /\ srvPc' = "fail_open"
                        ELSE IF HasHeader(m) /\ ~hdrOk
                        THEN /\ s2c' = s2c \o errStream(id, "header")
                             /\ srvReq' = [sreq EXCEPT !.streams = 1, !.fail = "header",
                                                       !.errSchema = "header"]
                             /\ initFailed' = initFailed \cup {id}
                             /\ srvPc' = "fail_open"
                        ELSE /\ s2c' = s2c \o
                                  (IF HasHeader(m)
                                   THEN wireStream(id, "header", 0,
                                          LogFrames(id, nl) \o <<F("B", id, "hdr", "", 0)>>)
                                   ELSE <<>>)
                             /\ srvReq' = [sreq EXCEPT !.streams = IF HasHeader(m) THEN 1 ELSE 0]
                             /\ UNCHANGED initFailed
                             /\ srvPc' = "in_open"

\* variant of the init-failure path that returns without opening the input
failOpen_noRead ==
    /\ ~desync
    /\ srvPc = "fail_open"
    /\ srvPc' = "serve"
    /\ UNCHANGED <<c2s, srd, srvReq, s2c, s2cClosed, srvPrev, srvGhost>>
    /\ UNCHANGED cliVars

\* dispatchStream after a failed init / header_init: open the input stream
failOpen ==
    /\ ~desync
    /\ srvPc = "fail_open"
    /\ CanOpen(c2s, c2sClosed)
    /\ IF BadOpen(c2s) THEN Halt
       ELSE /\ IF c2s = <<>>
               THEN \* openNextStream() returned null: return
                    /\ srvPc' = "serve"
                    /\ srvReq' = [srvReq EXCEPT !.inEof = TRUE]
                    /\ UNCHANGED <<c2s, srd>>
               ELSE /\ c2s' = Tail(c2s)
                    /\ srd' = "open"
                    /\ srvReq' = [srvReq EXCEPT !.inSid = Head(c2s).n, !.inOpened = TRUE]
                    /\ srvPc' = "fail_drain"
            /\ UNCHANGED <<s2c, s2cClosed, srvPrev, srvGhost>>
            /\ UNCHANGED cliVars

\* variant of the discard loop that stops after one message
drainInput_once ==
    /\ CanReadBatch(c2s, c2sClosed, srd)
    /\ IF BadBatch(c2s, srd) THEN Halt
       ELSE /\ IF BatchNull(c2s, c2sClosed, srd)
               THEN /\ srvPc' = "serve"
                    /\ srvReq' = [srvReq EXCEPT !.inEof = (srd # "ended")]
                    /\ UNCHANGED <<c2s, srd>>
               ELSE /\ c2s' = Tail(c2s)
                    /\ srvPc' = "serve"
                    /\ IF Head(c2s).k = "E"
                       THEN /\ srd' = "ended"
                            /\ srvReq' = [srvReq EXCEPT !.inEos = TRUE]
                       ELSE /\ srvReq' = [srvReq EXCEPT !.discarded = @ + 1]
                            /\ UNCHANGED srd
            /\ UNCHANGED <<s2c, s2cClosed, srvPrev, srvGhost>>
            /\ UNCHANGED cliVars

\* one readNextBatch() of a loop that discards the input stream
drainInput ==
    /\ CanReadBatch(c2s, c2sClosed, srd)
    /\ IF BadBatch(c2s, srd) THEN Halt
       ELSE /\ IF BatchNull(c2s, c2sClosed, srd)
               THEN /\ srvPc' = "serve"
                    /\ srvReq' = [srvReq EXCEPT !.inEof = (srd # "ended")]
                    /\ UNCHANGED <<c2s, srd>>
               ELSE /\ c2s' = Tail(c2s)
                    /\ IF Head(c2s).k = "E"
                       THEN /\ srd' = "ended"
                            /\ srvReq' = [srvReq EXCEPT !.inEos = TRUE]
                            /\ srvPc' = "serve"
                       ELSE /\ srvReq' = [srvReq EXCEPT !.discarded = @ + 1]
                            /\ UNCHANGED <<srd, srvPc>>
            /\ UNCHANGED <<s2c, s2cClosed, srvPrev, srvGhost>>
            /\ UNCHANGED cliVars

\* dispatchStream after a failed init / header_init: drain the input stream
failDrain ==
    /\ ~desync
    /\ srvPc = "fail_drain"
    /\ drainInput

\* dispatchStream: open the input stream, then open the output stream
openInput ==
    /\ ~desync
    /\ srvPc = "in_open"
    /\ CanOpen(c2s, c2sClosed)
    /\ IF BadOpen(c2s) THEN Halt
       ELSE /\ IF c2s = <<>>
               THEN \* Expected input stream but got EOF
                    /\ s2c' = s2c \o errStream(srvReq.op, "output")
                    /\ srvReq' = [srvReq EXCEPT !.streams = @ + 1, !.inEof = TRUE,
                                                !.afterEof = Len(errStream(srvReq.op, "output"))]
                    /\ srvPc' = "serve"
                    /\ UNCHANGED <<c2s, srd, srvOut>>
               ELSE /\ c2s' = Tail(c2s)
                    /\ srd' = "open"
                    /\ s2c' = s2c \o <<F("S", srvReq.op, "output", "", 0)>>
                    /\ srvOut' = TRUE
                    /\ srvReq' = [srvReq EXCEPT !.inSid = Head(c2s).n, !.inOpened = TRUE,
                                                !.streams = @ + 1]
                    /\ srvPc' = "loop"
            /\ UNCHANGED <<s2cClosed, srvPrev, initFailed, produced>>
            /\ UNCHANGED cliVars

\* variant of the catch block that writes nothing
onHandlerError_silent(o) == <<>>

\* the catch block of the data loop: one error batch on the output stream
onHandlerError(o) == <<errBatch(o)>>

\* variant of the end of dispatchStream without the final drain
afterLoop_noDrain(out, pcAfter) ==
    /\ s2c' = s2c \o out \o <<eos(srvReq.op)>>
    /\ srvOut' = FALSE
    /\ srvPc' = "serve"

\* what dispatchStream does once the data loop is left: write what the last
\* turn collected, close the output stream, then drain the input (pcAfter is
\* where the drain continues)
afterLoop(out, pcAfter) ==
    /\ s2c' = s2c \o out \o <<eos(srvReq.op)>>
    /\ srvOut' = FALSE
    /\ srvPc' = pcAfter

\* dispatchStream: one turn of the data loop
dataLoop ==
    /\ ~desync
    /\ srvPc = "loop"
    /\ CanReadBatch(c2s, c2sClosed, srd)
    /\ IF BadBatch(c2s, srd)
       THEN \* readNextBatch() threw inside the try: the catch block writes
            \* an error batch, the stream is closed and the drain follows
            /\ c2s' = Tail(c2s)
            /\ afterLoop(onHandlerError(srvReq.op), "drain")
            /\ srvReq' = [srvReq EXCEPT !.early = TRUE, !.loopErr = TRUE]
            /\ UNCHANGED <<srd, produced, s2cClosed, srvPrev, initFailed>>
            /\ UNCHANGED cliVars
       ELSE /\ IF BatchNull(c2s, c2sClosed, srd)
               THEN \* input ended without a marker: break, drain reads null
                    /\ afterLoop(<<>>, "serve")
                    /\ srvReq' = [srvReq EXCEPT !.inEof = TRUE, !.afterEof = 1]
                    /\ UNCHANGED <<c2s, srd, produced>>
               ELSE /\ c2s' = Tail(c2s)
                    /\ IF Head(c2s).k = "E"
                       THEN \* end of input: break; the drain reads null at once
                            /\ srd' = "ended"
                            /\ srvReq' = [srvReq EXCEPT !.inEos = TRUE]
                            /\ afterLoop(<<>>, "serve")
                            /\ UNCHANGED produced
                       ELSE \E r \in Outcomes(srvReq.m), nl \in 0..MaxLogs :
                            LET id == srvReq.op
                                nd == Cardinality(DataBatches(r.c))
                                data == [i \in 1..nd |->
                                           F("B", id, "data", "", Len(produced.seq) + i)]
                                called == [produced EXCEPT
                                             !.read = @ + 1, !.calls = @ + 1,
                                             !.fn = IF isProducer(srvReq.m)
                                                    THEN "produce" ELSE "exchange"]
                                written == [called EXCEPT
                                              !.seq = @ \o [i \in 1..nd |-> Len(@) + i]]
                            IN
                            /\ UNCHANGED srd
                            /\ IF r.threw
                               THEN \* the handler threw: what it collected is dropped
                                    /\ afterLoop(onHandlerError(id), "drain")
                                    /\ produced' = [called EXCEPT !.threw = TRUE]
                                    /\ srvReq' = [srvReq EXCEPT !.early = TRUE]
                               ELSE IF r.c.finished
                               THEN /\ afterLoop(LogFrames(id, nl) \o data, "drain")
                                    /\ produced' = [written EXCEPT !.fin = TRUE]
                                    /\ srvReq' = [srvReq EXCEPT !.early = TRUE]
                               ELSE /\ s2c' = s2c \o LogFrames(id, nl) \o data
                                    /\ produced' = written
                                    /\ UNCHANGED <<srvPc, srvReq, srvOut>>
            /\ UNCHANGED <<s2cClosed, srvPrev, initFailed>>
            /\ UNCHANGED cliVars

\* dispatchStream: drain the remaining input after the loop ended early
\* the catch block around the final drain: the error is dropped, whatever it
\* is, and dispatchStream returns
drainCatch ==
    /\ c2s' = Tail(c2s)
    /\ srvPc' = "serve"
    /\ srvReq' = [srvReq EXCEPT !.drainErr = TRUE]
    /\ UNCHANGED <<srd, s2c, s2cClosed, srvPrev, srvGhost>>
    /\ UNCHANGED cliVars

drainRest ==
    /\ ~desync
    /\ srvPc = "drain"
    /\ IF BadBatch(c2s, srd) THEN drainCatch ELSE drainInput

\* ------------------------------------------------------------------------
\* A peer on the server's stdin that is not this library's client: it frames
\* its streams but may send any request, stop anywhere, and close the pipe
\* ------------------------------------------------------------------------
\* request batches parseRequest rejects: no vgi_rpc.method, a
\* vgi_rpc.request_version that is missing or not "1", numRows != 1
BadRequests == {"nomethod", "badversion", "rows"}

rawRequests(o, sid) ==
    {buildRequestIpc(o, m, sid) : m \in Methods \cup {Unknown, DESCRIBE_METHOD_NAME}}
    \cup {wireStream(o, "params", sid, <<F("B", o, b, "", 0)>>) : b \in BadRequests}
    \cup {wireStream(o, "params", sid, <<>>)}

rawRest == <<s2cClosed, busy, drainPromise, drainWaiters, methodCache,
             cliClosed, crd, pc, op, res, sess, dpc, srvPc, srd, srvReq, srvPrev,
             holders, ops, srvOut, produced, initFailed, errSeen, busyFail,
             foreign, desync>>

RawOnly == transport = "pipe" /\ UNCHANGED <<ocVars, tokVars, transport, httpVars, xs, un, rq>>

\* the peer writes once the server has read what was written before (what the
\* server does with a frame depends on the frames before it, not on when
\* they were written), and not after it closed its end
RawTurn == c2s = <<>> /\ ~c2sClosed

\* a whole request stream, written after reading what the server wrote so far
RawRequest ==
    /\ raw.pc = "idle" /\ RawTurn
    /\ raw.streams < MaxRawStreams
    /\ \E frames \in rawRequests(nextOp, nextSid) : c2s' = c2s \o frames
    /\ s2c' = <<>>
    /\ raw' = [raw EXCEPT !.streams = @ + 1]
    /\ nextOp' = nextOp + 1
    /\ nextSid' = nextSid + 1
    /\ UNCHANGED <<rawRest, c2sClosed>>

\* the schema message of an input stream
RawOpen ==
    /\ raw.pc = "idle" /\ RawTurn
    /\ raw.streams < MaxRawStreams
    /\ nextOp > 1
    /\ c2s' = c2s \o <<F("S", nextOp - 1, "input", "", nextSid)>>
    /\ raw' = [raw EXCEPT !.streams = @ + 1, !.pc = "in", !.batches = 0]
    /\ nextSid' = nextSid + 1
    /\ UNCHANGED <<rawRest, s2c, c2sClosed, nextOp>>

\* an input batch
RawBatch ==
    /\ raw.pc = "in" /\ RawTurn
    /\ raw.batches < MaxRawBatches
    /\ c2s' = c2s \o <<tick(nextOp - 1)>>
    /\ raw' = [raw EXCEPT !.batches = @ + 1]
    /\ UNCHANGED <<rawRest, s2c, c2sClosed, nextOp, nextSid>>

\* a message the reader cannot accept inside a stream
RawBad ==
    /\ raw.pc = "in" /\ RawTurn
    /\ ~raw.bad
    /\ c2s' = c2s \o <<F("S", nextOp - 1, "input", "", nextSid)>>
    /\ raw' = [raw EXCEPT !.bad = TRUE]
    /\ UNCHANGED <<rawRest, s2c, c2sClosed, nextOp, nextSid>>

\* the end-of-stream marker of the input stream
RawEos ==
    /\ raw.pc = "in" /\ RawTurn
    /\ c2s' = c2s \o <<eos(nextOp - 1)>>
    /\ raw' = [raw EXCEPT !.pc = "idle"]
    /\ UNCHANGED <<rawRest, s2c, c2sClosed, nextOp, nextSid>>

\* the peer closes its end: the server's stdin reaches end of file
RawEnd ==
    /\ ~c2sClosed
    /\ c2sClosed' = TRUE
    /\ UNCHANGED <<rawRest, s2c, c2s, raw, nextOp, nextSid>>

\* ------------------------------------------------------------------------
\* exchange() of a client stream session: PipeStreamSession (client/pipe.ts)
\* and HttpStreamSession (client/stream.ts)
\* ------------------------------------------------------------------------
\* the schemas inferred from Object.keys(input[0])
FieldNames == {"a", "b"}
Schemas == {<<f>> : f \in FieldNames} \cup
           {<<f, g>> : <<f, g>> \in {p \in FieldNames \X FieldNames : p[1] # p[2]}}
\* the rows handed to exchange(): none, or rows with the keys of a schema
RowSets == {NoRows} \cup {[keys |-> k, n |-> 1] : k \in Schemas}

XsResult(session, wrote, err) == [s |-> session, wrote |-> wrote, err |-> err]

\* variant of the comparison that only counts the fields
schemaChanged_count(cached, inputSchema) == Len(cached) # Len(inputSchema)

\* cached.fields.length !== inputSchema.fields.length ||
\* cached.fields.some((f, i) => f.name !== inputSchema.fields[i].name)
schemaChanged(cached, inputSchema) ==
    \/ Len(cached) # Len(inputSchema)
    \/ \E i \in 1..Len(cached) : cached[i] # inputSchema[i]

\* the lazily opened PipeIncrementalWriter: the schema message goes out with
\* the first batch, every later batch goes into the same stream
writeInput(session, inputSchema, input) ==
    XsResult([session EXCEPT !.writer = IF @ = NoSchema THEN inputSchema ELSE @],
             (IF session.writer = NoSchema
              THEN <<[k |-> "S", schema |-> inputSchema, n |-> 0]>> ELSE <<>>)
             \o <<[k |-> "B", schema |-> inputSchema, n |-> input.n]>>,
             "none")

PipeStreamSession_exchange(session, input) ==
    IF ~session.live THEN XsResult(session, <<>>, "ProtocolError")
    ELSE IF input.n = 0
    THEN writeInput(session,
                    IF session.inputSchema # NoSchema THEN session.inputSchema
                    ELSE session.outputSchema, input)
    ELSE IF session.inputSchema # NoSchema
    THEN IF schemaChanged(session.inputSchema, input.keys)
         THEN XsResult(session, <<>>, "ProtocolError")
         ELSE writeInput(session, input.keys, input)
    ELSE writeInput([session EXCEPT !.inputSchema = input.keys], input.keys, input)

\* _doExchange: POST serializeIpcStream(schema, batches)
doExchange(session, schema, input) ==
    XsResult(session,
             <<[k |-> "S", schema |-> schema, n |-> 0],
               [k |-> "B", schema |-> schema, n |-> input.n],
               [k |-> "E", schema |-> NoSchema, n |-> 0]>>,
             "none")

HttpStreamSession_exchange(session, input) ==
    IF ~session.live THEN XsResult(session, <<>>, "ProtocolError")
    ELSE IF input.n = 0
    THEN doExchange(session,
                    IF session.inputSchema # NoSchema THEN session.inputSchema
                    ELSE session.outputSchema, input)
    ELSE doExchange(session, input.keys, input)

XsOnly == UNCHANGED <<ocVars, tokVars, transport, httpVars, pipeVarsButXs, un>>

\* a session as stream() hands it out: over the pipe without an input schema,
\* over HTTP with the input schema of __describe__ if there is one
XsInit ==
    \E t \in {"pipe", "http"}, out \in Schemas, in \in Schemas \cup {NoSchema} :
        /\ t = "pipe" => in = NoSchema
        /\ xs = [NoXs EXCEPT !.transport = t, !.outputSchema = out,
                             !.inputSchema = in, !.live = TRUE]

XsCall(r, input) ==
    /\ xs' = [r.s EXCEPT
                !.wire = @ \o r.wrote,
                !.calls = @ + 1,
                !.locked = IF @ = NoSchema /\ input.n > 0 /\ r.err = "none"
                           THEN input.keys ELSE @,
                !.last = [input |-> input, locked |-> xs.locked,
                          wrote |-> r.wrote, err |-> r.err]]
    /\ XsOnly

XsPipeExchange ==
    /\ xs.transport = "pipe" /\ xs.calls < MaxExchanges
    /\ \E input \in RowSets : XsCall(PipeStreamSession_exchange(xs, input), input)

XsHttpExchange ==
    /\ xs.transport = "http" /\ xs.calls < MaxExchanges
    /\ \E input \in RowSets : XsCall(HttpStreamSession_exchange(xs, input), input)

\* close() of the pipe session; the HTTP session has lost its token
XsEnd ==
    /\ xs.live
    /\ xs' = [xs EXCEPT !.live = FALSE]
    /\ XsOnly

\* ------------------------------------------------------------------------
\* A unary call: dispatchUnary (dispatch/unary.ts) on the pipe and
\* httpDispatchUnary (http/dispatch.ts)
\* ------------------------------------------------------------------------
LogMessages == {"m1", "m2", "m3"}
\* a unary handler sees the collector as a LogContext: it logs, and then
\* returns a result, returns one that lacks a required field, or throws
UnaryHandlers ==
    {[logs |-> l, end |-> e] :
        l \in UNION {[1..n -> LogMessages] : n \in 0..MaxUnaryLogs},
        e \in {"return", "missing", "throw"}}

RECURSIVE handler(_, _)
handler(out, logs) ==
    IF logs = <<>> THEN out
    ELSE handler(clientLog(out, Head(logs)).c, Tail(logs))

\* variant that writes the result batch first
unaryBatches_resultFirst(h) ==
    LET out == handler(NewCollector(TRUE), h.logs) IN
    IF h.end = "return"
    THEN [ok |-> TRUE, batches |-> <<Batch("result", 1)>> \o out.batches]
    ELSE [ok |-> FALSE, batches |-> <<Batch("error", 0)>>]

\* the try block shared by dispatchUnary and httpDispatchUnary: the batches
\* of the collector, then buildResultBatch (which throws on a missing
\* required field); the catch block: one error batch
unaryBatches(h) ==
    LET out == handler(NewCollector(TRUE), h.logs) IN
    IF h.end = "return"
    THEN [ok |-> TRUE, batches |-> out.batches \o <<Batch("result", 1)>>]
    ELSE [ok |-> FALSE, batches |-> <<Batch("error", 0)>>]

dispatchUnary(h) ==
    [status |-> 0, body |-> wireStream(0, "result", 0, unaryBatches(h).batches)]

\* variant that answers 200 whatever happened
httpDispatchUnary_ok(h) ==
    [status |-> 200, body |-> wireStream(0, "result", 0, unaryBatches(h).batches)]

httpDispatchUnary(h) ==
    LET r == unaryBatches(h) IN
    [status |-> IF r.ok THEN 200 ELSE 500,
     body |-> wireStream(0, "result", 0, r.batches)]

UnOnly == UNCHANGED <<ocVars, tokVars, transport, httpVars, pipeVarsButXs, xs>>

UnCall(t, h, resp) ==
    /\ un.calls < MaxOps
    /\ un' = [calls |-> un.calls + 1, transport |-> t, handler |-> h,
              status |-> resp.status, body |-> resp.body]
    /\ UnOnly

UnPipeCall == \E h \in UnaryHandlers : UnCall("pipe", h, dispatchUnary(h))

UnHttpCall == \E h \in UnaryHandlers : UnCall("http", h, httpDispatchUnary(h))

\* ------------------------------------------------------------------------
\* Specification
\* ------------------------------------------------------------------------
\* a step of the pipe transport leaves the rest alone
PipeOnly == transport = "pipe" /\ UNCHANGED <<ocVars, tokVars, transport, httpVars, raw, xs, un, rq>>

Next ==
    \/ (\E t \in Tasks : Call(t)) /\ PipeOnly
    \/ Stream /\ PipeOnly
    \/ (\E t \in Tasks : DescribeDone(t)) /\ PipeOnly
    \/ (\E t \in Tasks : CallOpen(t)) /\ PipeOnly
    \/ (\E t \in Tasks : CallDone(t)) /\ PipeOnly
    \/ HeaderDone /\ PipeOnly
    \/ StreamCatchDone /\ PipeOnly
    \/ Exchange /\ PipeOnly
    \/ ExchangeOpen /\ PipeOnly
    \/ ExchangeRead /\ PipeOnly
    \/ Cleanup /\ PipeOnly
    \/ IterStart /\ PipeOnly
    \/ IterOpen /\ PipeOnly
    \/ IterRead /\ PipeOnly
    \/ IterNext /\ PipeOnly
    \/ IterBreak /\ PipeOnly
    \/ IterDrain /\ PipeOnly
    \/ Close /\ PipeOnly
    \/ DrainOpen /\ PipeOnly
    \/ DrainRead /\ PipeOnly
    \/ ClientClose /\ PipeOnly
    \/ serveOne /\ PipeOnly
    \/ failOpen /\ PipeOnly
    \/ failDrain /\ PipeOnly
    \/ openInput /\ PipeOnly
    \/ dataLoop /\ PipeOnly
    \/ drainRest /\ PipeOnly

\* the server is run over stdio
Init == PipeInit /\ OcIdle /\ TokIdle /\ transport = "pipe" /\ HttpIdle /\ XsIdle

Spec == Init /\ [][Next]_vars

\* ------------------------------------------------------------------------
\* An OutputCollector of either mode under any sequence of calls
\* ------------------------------------------------------------------------
OcInit ==
    /\ PipeInit /\ XsIdle
    /\ \E producerMode \in BOOLEAN : oc = NewCollector(producerMode)
    /\ ocLast = NoCall
    /\ TokIdle
    /\ transport = "pipe" /\ HttpIdle

OcNext ==
    \/ OcEmit
    \/ OcEmitRow
    \/ OcClientLog
    \/ OcFinish

SpecOC == OcInit /\ [][OcNext]_vars

\* ------------------------------------------------------------------------
\* packStateToken / unpackStateToken on honest and damaged tokens
\* ------------------------------------------------------------------------
TokInit == PipeInit /\ OcIdle /\ TokIdle /\ transport = "http" /\ HttpIdle /\ XsIdle

TokNext ==
    \/ TokPack
    \/ TokFlip
    \/ TokCut
    \/ TokSign
    \/ TokUnpack

SpecTok == TokInit /\ [][TokNext]_vars

\* ------------------------------------------------------------------------
\* The server behind createHttpHandler, and a client of one stream session
\* ------------------------------------------------------------------------
HttpOnlyInit == PipeInit /\ OcIdle /\ TokIdle /\ transport = "http" /\ HttpInit /\ XsIdle

HttpNext ==
    \/ HttpStreamInit
    \/ HttpExchange
    \/ HttpBadExchange
    \/ HttpReplay
    \/ HttpTick

SpecHttp == HttpOnlyInit /\ [][HttpNext]_vars

\* ------------------------------------------------------------------------
\* A producer session over HTTP under any byte cap, tokens never expiring
\* ------------------------------------------------------------------------
CapInit ==
    /\ PipeInit /\ OcIdle /\ TokIdle /\ transport = "http" /\ XsIdle
    /\ hCfg \in [tokenTtl : {0}, maxBytes : {NoBudget, 0, 1}]
    /\ hNow = 0
    /\ hCli = NoCli
    /\ hResp = NoResp

CapNext ==
    \/ HttpStreamInit
    \/ HttpExchange
    \/ HttpIterateAgain

SpecCap == CapInit /\ [][CapNext]_vars

\* ------------------------------------------------------------------------
\* The server run over stdio or behind createHttpHandler
\* ------------------------------------------------------------------------
ServerInit == Init \/ HttpOnlyInit

ServerNext == Next \/ HttpNext

SpecServer == ServerInit /\ [][ServerNext]_vars

\* ------------------------------------------------------------------------
\* VgiRpcServer.run() fed by any peer
\* ------------------------------------------------------------------------
SrvNext ==
    \/ RawRequest /\ RawOnly
    \/ RawOpen /\ RawOnly
    \/ RawBatch /\ RawOnly
    \/ RawBad /\ RawOnly
    \/ RawEos /\ RawOnly
    \/ RawEnd /\ RawOnly
    \/ serveOne /\ PipeOnly
    \/ failOpen /\ PipeOnly
    \/ failDrain /\ PipeOnly
    \/ openInput /\ PipeOnly
    \/ dataLoop /\ PipeOnly
    \/ drainRest /\ PipeOnly

SpecSrv == Init /\ [][SrvNext]_vars

\* ------------------------------------------------------------------------
\* A client stream session under any sequence of exchange() calls
\* ------------------------------------------------------------------------
LockInit == PipeInit /\ OcIdle /\ TokIdle /\ transport = "pipe" /\ HttpIdle /\ XsInit

LockNext ==
    \/ XsPipeExchange
    \/ XsHttpExchange
    \/ XsEnd

SpecLock == LockInit /\ [][LockNext]_vars

\* ------------------------------------------------------------------------
\* Unary calls of any handler over either transport
\* ------------------------------------------------------------------------
UnaryNext ==
    \/ UnPipeCall
    \/ UnHttpCall

SpecUnary == Init /\ [][UnaryNext]_vars

\* ------------------------------------------------------------------------
\* The fetch handler of createHttpHandler (src/http/index.ts) and the
\* describe batch (src/dispatch/stream.ts).  A method name is the sequence
\* of its UTF-16 code units; the handler answers one request.
\* ------------------------------------------------------------------------
ARROW_CONTENT_TYPE == "application/vnd.apache.arrow.stream"

\* the code units "B", "a", "b"
CodeUnits == {66, 97, 98}
MethodNames == UNION {[1..n -> CodeUnits] : n \in 1..MaxName}

\* Map<string, MethodDefinition> in insertion order: distinct names, each
\* unary or stream
Registries ==
    {r \in UNION {[1..n -> [name : MethodNames, type : {"unary", "stream"}]] :
                     n \in 0..MaxMethods} :
        \A i, j \in 1..Len(r) : i # j => r[i].name # r[j].name}

\* methods.keys()
keys(methods) == [i \in 1..Len(methods) |-> methods[i].name]

\* comparison of two strings by code units, the order of Array.prototype.sort
\* without a comparator
RECURSIVE codeUnitLess(_, _)
codeUnitLess(a, b) ==
    IF b = <<>> THEN FALSE
    ELSE IF a = <<>> THEN TRUE
    ELSE IF a[1] # b[1] THEN a[1] < b[1]
    ELSE codeUnitLess(Tail(a), Tail(b))

\* the letter of a code unit whatever its case
fold(a) == [i \in 1..Len(a) |-> IF a[i] >= 97 THEN a[i] - 32 ELSE a[i]]

\* the collation of the host: the one of ICU, or code units where the
\* runtime has no locale data
Collations == {"icu", "code units"}

\* String.prototype.localeCompare on names of ASCII letters, whose order
\* the host defines.  With ICU the letters decide, and between names of
\* the same letters the first difference of case, the lower case letter
\* first
localeCompare(a, b, collation) ==
    IF collation = "code units"
    THEN (IF a = b THEN 0 ELSE IF codeUnitLess(a, b) THEN -1 ELSE 1)
    ELSE IF fold(a) # fold(b) THEN (IF codeUnitLess(fold(a), fold(b)) THEN -1 ELSE 1)
    ELSE IF a = b THEN 0
    ELSE LET i == CHOOSE k \in 1..Len(a) :
                      a[k] # b[k] /\ \A l \in 1..(k - 1) : a[l] = b[l]
         IN IF a[i] > b[i] THEN -1 ELSE 1

\* Array.prototype.sort: stable; with the comparator localeCompare on the
\* name under the collation of the host, or without a comparator ("")
RECURSIVE insertSorted(_, _, _)
insertSorted(sorted, e, collation) ==
    IF sorted = <<>> THEN <<e>>
    ELSE LET last == sorted[Len(sorted)]
             before == IF collation # "" THEN localeCompare(e.name, last.name, collation) < 0
                       ELSE codeUnitLess(e.name, last.name)
         IN IF before
            THEN insertSorted(SubSeq(sorted, 1, Len(sorted) - 1), e, collation) \o <<last>>
            ELSE sorted \o <<e>>

RECURSIVE sort(_, _)
sort(entries, collation) ==
    IF entries = <<>> THEN <<>>
    ELSE insertSorted(sort(SubSeq(entries, 1, Len(entries) - 1), collation),
                      entries[Len(entries)], collation)

\* buildDescribeBatch: one row per method, the entries sorted by name
buildDescribeBatch(methods, collation) ==
    LET sortedEntries == sort(methods, collation) IN
    [i \in 1..Len(sortedEntries) |->
        [name |-> sortedEntries[i].name, method_type |-> sortedEntries[i].type]]

\* contentType.includes(ARROW_CONTENT_TYPE); the header is the sequence of
\* its parts, <<>> when it is missing
includes(contentType, part) == \E i \in 1..Len(contentType) : contentType[i] = part

\* parseInt of a header of decimal digits
RECURSIVE parseInt(_)
parseInt(digits) ==
    IF digits = <<>> THEN 0
    ELSE parseInt(SubSeq(digits, 1, Len(digits) - 1)) * 10 + digits[Len(digits)]

\* the decimal digits of n
RECURSIVE String(_)
String(n) == IF n < 10 THEN <<n>> ELSE String(n \div 10) \o <<n % 10>>

Response(status, body, rows, ran) ==
    [status |-> status, body |-> body, rows |-> rows, ran |-> ran]

\* makeErrorResponse: one error batch; rows holds the names its message
\* lists
makeErrorResponse(available, statusCode) ==
    Response(statusCode, "error", available, "none")

\* methods.get(methodName)
get(methods, methodName) ==
    LET hit == {i \in 1..Len(methods) : methods[i].name = methodName} IN
    IF hit = {} THEN "undefined" ELSE methods[CHOOSE i \in hit : TRUE].type

\* the handler createHttpHandler returns.  path: whether it starts with
\* prefix + "/", and what follows the prefix; outcome: the status of what the
\* dispatcher returns, or of the error it throws
fetchHandler(h, request, outcome) ==
    IF request.method = "OPTIONS"
    THEN IF request.path.under /\ request.path.route = "__capabilities__"
         THEN Response(204, "", <<>>, "none")
         ELSE IF h.corsOrigins THEN Response(204, "", <<>>, "none")
         ELSE Response(405, "", <<>>, "none")
    ELSE IF request.method # "POST" THEN Response(405, "text", <<>>, "none")
    ELSE IF ~includes(request.contentType, ARROW_CONTENT_TYPE)
    THEN Response(415, "text", <<>>, "none")
    ELSE IF /\ h.maxRequestBytes # unset
            /\ request.contentLength # <<>>
            /\ parseInt(request.contentLength) > h.maxRequestBytes
    THEN Response(413, "text", <<>>, "none")
    ELSE IF request.path.under /\ request.path.route = DESCRIBE_METHOD_NAME
    THEN Response(200, "describe", buildDescribeBatch(h.methods, h.collation), "describe")
    ELSE IF ~request.path.under THEN Response(404, "text", <<>>, "none")
    ELSE LET methodName == request.path.name
             action == request.path.action
             method == get(h.methods, methodName)
         IN
         IF method = "undefined"
         THEN makeErrorResponse(keys(sort(h.methods, "")), 404)
         ELSE IF action = "call"
         THEN IF method # "unary" THEN makeErrorResponse(<<>>, 400)
              ELSE Response(outcome, "dispatch", <<>>, "call")
         ELSE IF method # "stream" THEN makeErrorResponse(<<>>, 400)
         ELSE Response(outcome, "dispatch", <<>>, action)

RqOnly == UNCHANGED <<ocVars, tokVars, transport, httpVars, others, desync, raw, xs, un>>

\* createHttpHandler(protocol, options)
RqCreate ==
    /\ ~rq.made
    /\ \E methods \in Registries, corsOrigins \in BOOLEAN,
          maxRequestBytes \in {unset, MaxBody - 1}, collation \in Collations :
          rq' = [NoRq EXCEPT !.made = TRUE, !.methods = methods,
                             !.collation = collation,
                             !.corsOrigins = corsOrigins,
                             !.maxRequestBytes = maxRequestBytes]
    /\ RqOnly

\* what a request may name: a path outside the prefix, the capabilities
\* and describe routes, a method name with or without /init or /exchange
Paths ==
    {[under |-> FALSE, route |-> "", name |-> <<>>, action |-> ""]}
    \cup {[under |-> TRUE, route |-> r, name |-> <<>>, action |-> ""] :
             r \in {"__capabilities__", DESCRIBE_METHOD_NAME}}
    \cup {[under |-> TRUE, route |-> "method", name |-> m, action |-> a] :
             m \in MethodNames, a \in {"call", "init", "exchange"}}
ContentTypes ==
    {<<>>, <<"application/json">>, <<ARROW_CONTENT_TYPE>>,
     <<ARROW_CONTENT_TYPE, "charset=utf-8">>}
\* the status of what a dispatcher returns or throws
DispatchOutcomes == {200, 400, 500}

RqAnswer(request, outcome) ==
    /\ rq.made
    /\ rq.n = 0
    /\ rq' = [rq EXCEPT !.n = 1, !.request = request,
                        !.response = fetchHandler(rq, request, outcome)]
    /\ RqOnly

\* a CORS preflight
RqOptions ==
    \E path \in Paths :
        RqAnswer([NoRequest EXCEPT !.method = "OPTIONS", !.path = path], 200)

\* a request that is neither POST nor OPTIONS
RqGet ==
    \E method \in {"GET", "PUT"}, path \in Paths :
        RqAnswer([NoRequest EXCEPT !.method = method, !.path = path], 200)

\* a POST with a body of some length, sent with a Content-Length header or
\* chunked without one
RqPost ==
    \E path \in Paths, contentType \in ContentTypes, body \in 0..MaxBody,
       chunked \in BOOLEAN, outcome \in DispatchOutcomes :
        RqAnswer([method |-> "POST", path |-> path, contentType |-> contentType,
                  contentLength |-> IF chunked THEN <<>> ELSE String(body),
                  body |-> body], outcome)

HandlerNext ==
    \/ RqCreate
    \/ RqOptions
    \/ RqGet
    \/ RqPost

SpecHandler == Init /\ [][HandlerNext]_vars

\* ------------------------------------------------------------------------
\* Who is suspended on a read that cannot return
\* ------------------------------------------------------------------------
StreamReadPcs == {"desc_wait", "hdr_wait", "scatch_wait"}
CallPcs == {"call_wait", "call_read"}
OpenPcs == {"ex_open_wait", "it_open_wait"}
BatchReadPcs == {"ex_read_wait", "cleanup_wait", "it_read_wait", "it_fin_wait"}
SessionPcs == OpenPcs \cup BatchReadPcs

\* task t awaits a read of the client reader that has nothing to return
CliReadBlocked(t) ==
    \/ pc[t] \in StreamReadPcs /\ ~CanReadStream(s2c, s2cClosed)
    \/ pc[t] \in OpenPcs \cup {"call_wait"} /\ ~CanOpen(s2c, s2cClosed)
    \/ pc[t] = "call_read" /\ ~CallCanRead
    \/ pc[t] \in BatchReadPcs /\ ~CanReadBatch(s2c, s2cClosed, crd)

\* the background drain of close() awaits a read that has nothing to return
DrainBlocked ==
    \/ dpc = "d_open" /\ ~CanOpen(s2c, s2cClosed)
    \/ dpc = "d_read" /\ ~CanReadBatch(s2c, s2cClosed, crd)

\* the server awaits a read of its reader that has nothing to return
SrvReadBlocked ==
    \/ srvPc = "serve" /\ ~CanReadStream(c2s, c2sClosed)
    \/ srvPc \in {"fail_open", "in_open"} /\ ~CanOpen(c2s, c2sClosed)
    \/ srvPc \in {"fail_drain", "loop", "drain"} /\ ~CanReadBatch(c2s, c2sClosed, srd)

\* nothing on either side of the pipe can take a step by itself
SrvQuiet == srvPc = "exited" \/ SrvReadBlocked
CliQuiet ==
    /\ \A t \in Tasks : pc[t] \in {"idle", "it_yield", "acq_wait"} \/ CliReadBlocked(t)
    /\ dpc = "none" \/ DrainBlocked
Quiescent == SrvQuiet /\ CliQuiet

\* the caller holds a session it has not finished with
LiveSession ==
    /\ sess.exists /\ ~sess.closed
    /\ sess.op \in holders
    /\ pc["main"] \in {"idle", "it_yield"}

NoFrames(k) ==
    /\ \A i \in 1..Len(c2s) : c2s[i].op # k
    /\ \A i \in 1..Len(s2c) : s2c[i].op # k

\* frames of one operation lie together, operations in the order they began
Ordered(q) == \A i \in 1..Len(q) : \A j \in i..Len(q) : q[i].op <= q[j].op

IsPrefixOf(a, b) == Len(a) <= Len(b) /\ SubSeq(b, 1, Len(a)) = a

\* ------------------------------------------------------------------------
\* Properties
\* ------------------------------------------------------------------------

\* C1: the single-flight lock is released on every exit path: whenever the
\* pipe has come to rest (no side can take a step by itself) the lock is
\* free, unless the caller still holds a session it has not closed.
C1_LockReleasedOnEveryExit ==
    (Quiescent /\ busy) => LiveSession

\* C2: the lock is a mutex: at most one operation (a call, the describe
\* fetch, or one session with its drain) holds it, only the holder is
\* reading or writing the pipe, the frames of two operations are never
\* interleaved, and no operation reads a frame of another operation.
C2_Mutex ==
    /\ Cardinality(holders) <= 1
    /\ busy <=> holders # {}
    /\ \A t \in Tasks : pc[t] \in StreamReadPcs \cup CallPcs => op[t].id \in holders
    /\ (pc["main"] \in SessionPcs \cup {"it_yield"} /\ ~sess.closed)
           => sess.op \in holders
    /\ (sess.exists /\ ~sess.closed) => sess.op \in holders
    /\ Ordered(c2s) /\ Ordered(s2c)
    /\ ~foreign

\* C3: a pipe stream session never deadlocks: there is no state in which the
\* client is suspended on a read of a stream operation (stream(), exchange(),
\* an iterator step, the drain of close()) that cannot return while the
\* server is suspended on a read that cannot return.
C3_NoReadReadDeadlock ==
    ~( /\ \/ pc["main"] \in {"hdr_wait", "scatch_wait"} \cup SessionPcs
             /\ CliReadBlocked("main")
          \/ DrainBlocked
       /\ SrvReadBlocked )

\* C4: after a stream dispatch ended early (finish() or a throwing handler)
\* the server discards the rest of the client's input stream up to its
\* end-of-stream marker before it reads the next request, and the next
\* request it parses is the first stream the client sent after the session:
\* whenever the server is about to read a request, what is buffered for it
\* begins with the schema message of a stream.
C4_DrainBeforeNextRequest ==
    /\ (srvPc = "serve" /\ srvReq.early) => (srvReq.inEos \/ srvReq.inEof)
    /\ (srvPrev.early /\ srvReq.seq = srvPrev.seq + 1)
          => (srvPrev.inEos /\ srvReq.sid = srvPrev.inSid + 1)
    /\ (srvPc = "serve" /\ c2s # <<>>) => Head(c2s).k = "S"

C4_Witness ==
    /\ srvPrev.early /\ srvPrev.discarded > 0
    /\ srvReq.seq = srvPrev.seq + 1
    /\ srvReq.kind \in {"unary", "stream"}

\* C5: the server starts handling request n+1 only after it has read the
\* end-of-stream marker of every stream the client sent for request n and
\* has written the end-of-stream marker of every response stream of n.
C5_RequestOrdering ==
    srvPc = "serve" =>
        /\ ~srvOut
        /\ s2c # <<>> => s2c[Len(s2c)].k = "E"
        /\ srvReq.inOpened => (srvReq.inEos \/ srvReq.inEof)
        /\ (srvReq.kind = "stream" /\ ~srvReq.inOpened) => srvReq.inEof
        /\ \A i \in 1..Len(c2s) : c2s[i].op # srvReq.op

C5_Witness ==
    /\ srvPc = "serve"
    /\ srvReq.kind = "stream" /\ srvReq.streams = 2 /\ srvReq.inEos
    /\ HasStream(c2s) /\ Head(c2s).op > srvReq.op

\* C6: after any error the server reported on the pipe (a failing unary
\* call, a producer throwing mid-stream, an exchange round throwing, an init
\* failure) the client is usable again: once the pipe has come to rest the
\* failed operation no longer holds the lock and none of its bytes is left
\* unread or unsent, and no later operation reads a frame that is not its own.
C6_UsableAfterError ==
    /\ \A k \in errSeen : Quiescent => (k \notin holders /\ NoFrames(k))
    /\ ~foreign

\* C7: when stream init throws, the server writes exactly one error stream
\* (on the header schema if the method has one, else on the empty schema),
\* then opens the client's input stream and reads it to its end-of-stream
\* marker before it reads the next request.
C7_InitFailure ==
    srvReq.fail = "init" =>
        /\ srvReq.streams = 1
        /\ srvReq.errSchema = (IF HasHeader(srvReq.m) THEN "header" ELSE "empty")
        /\ srvPc \in {"fail_open", "fail_drain", "serve", "exited"}
        /\ srvPc \in {"serve", "exited"} =>
              \/ srvReq.inOpened /\ srvReq.inEos
              \/ srvReq.inEof

C7_Witness ==
    /\ srvReq.fail = "init" /\ srvPc = "serve"
    /\ srvReq.inOpened /\ srvReq.inEos /\ srvReq.discarded > 0

\* C8: if stream init fails, stream() itself rejects with the remote error:
\* no session is handed to the caller for an operation whose init threw.
C8_InitErrorRejectsStream ==
    ~(sess.exists /\ sess.op \in initFailed)

C10_NextAfterClose ==
    /\ busyFail.seen => ~busyFail.draining
    /\ \A t \in Tasks : pc[t] = "acq_wait" => (dpc # "none" /\ drainPromise = "pending")
    /\ \A t \in Tasks : (op[t].waited /\ pc[t] \notin {"acq_wait", "idle"})
                            => op[t].id \in holders
    /\ \A t \in Tasks : (op[t].waited /\ pc[t] \in StreamReadPcs \cup {"call_wait"} /\ s2c # <<>>)
                            => Head(s2c).op = op[t].id
    /\ ~foreign


\* ------------------------------------------------------------------------
\* C11: in the data loop of dispatchStream the handler function is called
\* once for every input batch read, and the data batches written to the
\* output stream never outnumber the input batches read.
\* ------------------------------------------------------------------------
C11_OnePerInput ==
    /\ produced.calls = produced.read
    /\ Len(produced.seq) <= produced.read
    /\ produced.op # 0 =>
          Cardinality({i \in 1..Len(s2c) : /\ s2c[i].op = produced.op
                                           /\ s2c[i].k = "B"
                                           /\ s2c[i].b = "data"}) <= produced.read

\* two input batches were read and answered with a data batch each
C11_Witness ==
    /\ produced.read = 2
    /\ produced.calls = 2
    /\ produced.seq = <<1, 2>>

\* ------------------------------------------------------------------------
\* C12: whatever calls are made on an OutputCollector, its list holds at
\* most one data batch; an emit or emitRow after the data batch throws and
\* leaves the list as it was; a log batch is always accepted.
\* ------------------------------------------------------------------------
C12_OneDataBatch ==
    /\ Cardinality(DataBatches(oc)) <= 1
    /\ oc.dataBatchIdx = -1 <=> DataBatches(oc) = {}
    /\ oc.dataBatchIdx # -1 => DataBatches(oc) = {oc.dataBatchIdx + 1}
    /\ (/\ ocLast.call \in {"emit", "emitRow"}
        /\ \E i \in 1..Len(ocLast.before) : ocLast.before[i].k = "data")
          => (ocLast.threw /\ oc.batches = ocLast.before)
    /\ ocLast.call = "clientLog"
          => (~ocLast.threw /\ oc.batches = Append(ocLast.before, buildLogBatch("log")))

\* a second emit was refused on a list holding a log batch and a data batch
C12_Witness ==
    /\ ocLast.call = "emit"
    /\ ocLast.threw
    /\ ocLast.before = <<buildLogBatch("log"), Batch("data", 1)>>
    /\ oc.batches = ocLast.before


\* the MAC of the token verifies under the key
MacValid(tokenBase64, key) ==
    LET token == fromBase64(tokenBase64)
        n == Len(token) - HMAC_LEN
    IN /\ n >= 0
       /\ SubSeq(token, n + 1, Len(token)) = hmac(key, SubSeq(token, 1, n))

\* the TTL is on and has elapsed at the last unpacking
Elapsed == tokOut.ttl > 0 /\ tokOut.now - tokCase.createdAt > tokOut.ttl

\* ------------------------------------------------------------------------
\* C15: a token whose MAC does not verify under the key fails with the
\* HMAC failure or the too-short failure, whatever its version, creation
\* time, TTL and length fields are.
\* ------------------------------------------------------------------------
C15_MacFirst ==
    (tokOut.done /\ ~MacValid(tokCase.token, tokOut.key))
        => tokOut.r.err \in {"hmac", "too short"}

\* an expired payload of an unsupported version with its end missing,
\* signed under another key, fails on the MAC
C15_Witness ==
    /\ tokOut.done
    /\ tokCase.kind = "signed"
    /\ tokCase.version # TOKEN_VERSION
    /\ tokCase.key # tokOut.key
    /\ Elapsed
    /\ unpackStateToken(tokCase.token, tokCase.key, 0, 0).err = "version"
    /\ tokOut.r.err = "hmac"

\* ------------------------------------------------------------------------
\* C16: unpacking fails for a token packed under another key, and for a
\* packed token with one bit flipped in its payload or its MAC.
\* ------------------------------------------------------------------------
C16_KeyAndBitFlip ==
    /\ (tokOut.done /\ tokCase.kind = "packed" /\ tokOut.key # tokCase.key)
          => tokOut.r.err # "none"
    /\ (tokOut.done /\ tokCase.kind = "flipped") => tokOut.r.err # "none"

\* a bit of a state byte was flipped and the token presented under the
\* key it was packed with, within its TTL
C16_Witness ==
    /\ tokOut.done
    /\ tokCase.kind = "flipped"
    /\ tokOut.key = tokCase.key
    /\ ~Elapsed
    /\ Len(tokCase.stateBytes) = 1
    /\ fromBase64(tokCase.token)[14] # tokCase.stateBytes[1]
    /\ tokOut.r.err = "hmac"

\* ------------------------------------------------------------------------
\* C17: a token with a valid MAC and the supported version is rejected as
\* expired exactly when the TTL is positive and the age exceeds it; with a
\* TTL of 0 no age is too old.
\* ------------------------------------------------------------------------
C17_Expiry ==
    (/\ tokOut.done
     /\ tokCase.kind \in {"packed", "signed"}
     /\ Len(fromBase64(tokCase.token)) >= MIN_TOKEN_LEN
     /\ MacValid(tokCase.token, tokOut.key)
     /\ tokCase.version = TOKEN_VERSION)
        => /\ tokOut.r.err = "expired" <=> Elapsed
           /\ (tokOut.ttl = 0 /\ tokCase.kind = "packed") => tokOut.r.err = "none"

\* a packed token one second past its TTL is refused, and accepted at any
\* age once the TTL is 0
C17_Witness ==
    /\ tokOut.done
    /\ tokCase.kind = "packed"
    /\ tokOut.key = tokCase.key
    /\ tokOut.ttl = MaxTtl
    /\ tokOut.now = tokCase.createdAt + MaxTtl + 1
    /\ tokOut.r.err = "expired"
    /\ unpackStateToken(tokCase.token, tokOut.key, 0, tokOut.now).err = "none"

\* ------------------------------------------------------------------------
\* C18: unpacking a packed token under the key it was packed with, within
\* its TTL, returns the three byte strings and the creation time it was
\* packed from.
\* ------------------------------------------------------------------------
C18_RoundTrip ==
    (/\ tokOut.done
     /\ tokCase.kind = "packed"
     /\ tokOut.key = tokCase.key
     /\ ~Elapsed)
        => tokOut.r = Unpacked(tokCase.stateBytes, tokCase.schemaBytes,
                               tokCase.inputSchemaBytes, tokCase.createdAt)

\* an empty state with a non-empty input schema came back, under a TTL
C18_Witness ==
    /\ tokOut.done
    /\ tokCase.kind = "packed"
    /\ tokOut.key = tokCase.key
    /\ tokOut.ttl > 0
    /\ tokCase.stateBytes = <<>>
    /\ tokCase.schemaBytes = <<>>
    /\ tokCase.inputSchemaBytes = <<200>>
    /\ tokCase.createdAt = 300
    /\ tokOut.r.err = "none"
    /\ tokOut.r.inputSchemaBytes = <<200>>
    /\ tokOut.r.createdAt = 300


\* ------------------------------------------------------------------------
\* C13: a finish() call made by an exchange function throws and leaves the
\* finished flag false, on the pipe and over HTTP; no stream is ended by an
\* exchange function that called finish.
\* ------------------------------------------------------------------------
C13_ExchangeFinishThrows ==
    /\ produced.fn = "exchange" => ~produced.fin
    /\ hResp.fn = "exchange" => ~hResp.fin

\* ------------------------------------------------------------------------
\* C14: once a produce call asserts finish, the produce function is not
\* called again for the stream and no further batch is written: on the
\* pipe the output stream is closed right after the batches of that call,
\* over HTTP the response ends with them and carries no token.
\* ------------------------------------------------------------------------
C14_FinishIsLast ==
    /\ (produced.fn = "produce" /\ produced.fin /\ srvReq.op = produced.op)
          => /\ srvPc # "loop"
             /\ ~srvOut
             /\ LET mine == {i \in 1..Len(s2c) : s2c[i].op = produced.op} IN
                \A i \in mine : (\A j \in mine : j <= i) => s2c[i].k = "E"
    /\ (hResp.fn = "produce" /\ hResp.fin)
          => /\ \A i \in 1..Len(hResp.batches) :
                   /\ hResp.batches[i].token = <<>>
                   /\ hResp.batches[i].k \in {"data", "log"}
             /\ hResp.calls >= 1
             /\ hCli.done

\* over HTTP a producer resumed from a continuation token finished after a
\* data batch
C14_Witness ==
    /\ hResp.kind = "exchange"
    /\ hResp.fn = "produce"
    /\ hResp.fin
    /\ hResp.before >= 1
    /\ hResp.lastCall = 1
    /\ hResp.batches # <<>>
    /\ hResp.batches[Len(hResp.batches)].k = "data"
    /\ hCfg.maxBytes # NoBudget

C20_FreshToken ==
    (/\ hResp.kind = "exchange" /\ hResp.status = 200 /\ hResp.fn = "exchange"
     /\ \E i \in 1..Len(hResp.batches) : hResp.batches[i].k = "data")
        => /\ hResp.after = hResp.before + 1
           /\ LastToken(hResp.batches) # <<>>
           /\ Carried(LastToken(hResp.batches)) = hResp.after
           /\ Carried(hCli.token) = hResp.after

\* ------------------------------------------------------------------------
\* C21: a round of exchange over HTTP that completes without error returns
\* the rotated token; when the function emitted no data batch, the token is
\* on a trailing zero-row batch.
\* ------------------------------------------------------------------------
C21_TokenOnEmptyRound ==
    (hResp.kind = "exchange" /\ hResp.status = 200 /\ hResp.fn = "exchange")
        => /\ LastToken(hResp.batches) # <<>>
           /\ Carried(LastToken(hResp.batches)) = hResp.after
           /\ (\A i \in 1..Len(hResp.batches) : hResp.batches[i].k # "data")
                 => /\ hResp.batches # <<>>
                    /\ hResp.batches[Len(hResp.batches)].rows = 0
                    /\ hResp.batches[Len(hResp.batches)].token # <<>>

\* the positions of the batches of the last response that carry a token
TokenAt == {i \in 1..Len(hResp.batches) : hResp.batches[i].token # <<>>}
\* the last response is that of a producer loop
ProducerResponse ==
    /\ hResp.kind \in {"init", "exchange"}
    /\ hResp.status = 200
    /\ effectiveProducer(hCli.m)

\* ------------------------------------------------------------------------
\* C22: with a byte cap, a producer response over HTTP (init or
\* continuation) has at most one continuation token; the token is on a
\* zero-row batch that is the last batch of the data stream, and it is there
\* only if the producer neither finished nor failed in that response.
\* ------------------------------------------------------------------------
C22_OneTrailingToken ==
    (ProducerResponse /\ hCfg.maxBytes # NoBudget)
        => /\ Cardinality(TokenAt) <= 1
           /\ \A i \in TokenAt :
                 /\ i = Len(hResp.batches)
                 /\ hResp.batches[i].rows = 0
                 /\ hResp.batches[i].k = "token"
                 /\ ~hResp.fin
                 /\ \A j \in 1..Len(hResp.batches) : hResp.batches[j].k # "error"

\* a continuation response with a data batch and a further token
C22_Witness ==
    /\ ProducerResponse
    /\ hCfg.maxBytes # NoBudget
    /\ hResp.kind = "exchange"
    /\ Len(hResp.batches) >= 2
    /\ hResp.batches[1].k = "data"
    /\ TokenAt = {Len(hResp.batches)}

\* what the produce function hands out when it is called until it finishes
\* or throws: the data batches of its calls, a throwing call giving none
RECURSIVE Delivered(_)
Delivered(prog) ==
    IF prog = <<>> \/ Head(prog).threw THEN <<>>
    ELSE DataOf(RespBatches(Head(prog).c)) \o Delivered(Tail(prog))



\* the producer stream of the session has ended: the last response was
\* served by the producer loop and left no token
Ended ==
    /\ hCli.live
    /\ isProducer(hCli.m)
    /\ hResp.status = 200
    /\ hCli.done

\* ------------------------------------------------------------------------
\* C23: whatever the byte cap, the data batches of the init response and of
\* the continuation responses, put end to end, are the data batches the
\* same produce function delivers without a cap: none lost, none twice,
\* none out of order.
\* ------------------------------------------------------------------------
C23_SameAsUncapped ==
    (hCli.live /\ isProducer(hCli.m))
        => /\ IsPrefixOf(hCli.got, Delivered(hCli.prog))
           /\ Ended => hCli.got = Delivered(hCli.prog)
           /\ (hCfg.maxBytes = NoBudget /\ hResp.kind = "init") => Ended

\* two continuations were needed, and the three responses brought a batch
\* each
C23_Witness ==
    /\ Ended
    /\ hCfg.maxBytes # NoBudget
    /\ hResp.kind = "exchange"
    /\ hResp.before = 2
    /\ Len(hCli.got) = 3
    /\ hCli.got = Delivered(hCli.prog)

\* the positions of the EXCEPTION batches of the last response
ErrorAt == {i \in 1..Len(hResp.batches) : hResp.batches[i].k = "error"}

\* ------------------------------------------------------------------------
\* C24: the data stream of an HTTP stream response is data only, or data
\* with a continuation, or data ended by one error batch; no response holds
\* both an EXCEPTION batch and a stream_state token.
\* ------------------------------------------------------------------------
C24_ErrorOrToken ==
    hResp.kind \in {"init", "exchange"}
        => /\ ErrorAt = {} \/ TokenAt = {}
           /\ ErrorAt \subseteq {Len(hResp.batches)}

\* a continuation round that brought a data batch and then failed
C24_Witness ==
    /\ hResp.kind = "exchange"
    /\ hResp.req = "held"
    /\ hResp.fn = "produce"
    /\ Len(hResp.batches) = 2
    /\ hResp.batches[1].k = "data"
    /\ ErrorAt = {2}

Failed(req) ==
    \/ req.kind \in {"bad", "unknown"}
    \/ req.fail \in {"handler", "init", "header"}
    \/ (req.kind = "stream" /\ produced.op = req.op /\ produced.threw)

Batches(frames) == LET IsB(f) == f.k = "B" IN SelectSeq(frames, IsB)

\* the stream written last is complete and its last batch is an error batch
EndsWithError(frames) ==
    /\ frames # <<>> /\ frames[Len(frames)].k = "E"
    /\ Len(frames) > 1 /\ IsErr(frames[Len(frames) - 1])

\* C26: once the server is done with a request that failed for a reason
\* other than the transport (a request batch parseRequest rejects, no batch,
\* an unknown method, a handler, init, header_init, produce or exchange that
\* threw), the last thing it wrote is an error batch in a closed stream and
\* it is back at the head of its loop; the loop ends only when the peer
\* closed its end or wrote a message that cannot continue a stream.
C26_ErrorThenNext ==
    /\ (srvPc = "serve" /\ ~desync /\ Failed(srvReq) /\ srvReq.op = nextOp - 1)
        => (EndsWithError(s2c) /\ ~s2cClosed)
    /\ srvPc = "exited" => (c2sClosed /\ ~HasStream(c2s))
    /\ desync => raw.bad
    /\ (srvReq.seq > 0 /\ ~desync /\ srvPc # "exited") => ~s2cClosed

\* a request failed and the one after it was answered with a result
C26_Witness ==
    /\ Failed(srvPrev) /\ srvPrev.kind \in {"bad", "unknown", "stream"}
    /\ srvReq.seq = srvPrev.seq + 1
    /\ srvReq.kind = "unary" /\ srvReq.fail = "none"
    /\ srvPc = "serve"
    /\ Len(s2c) > 1 /\ s2c[Len(s2c) - 1].b = "res"

\* ------------------------------------------------------------------------
\* End of file on the server's stdin
\* ------------------------------------------------------------------------
\* C27: once a read of the server met the end of its input, the server
\* writes nothing more, wherever the end was met: between two requests, or
\* where the input stream of a stream request was expected.
C27_SilentAfterEof == srvReq.inEof => srvReq.afterEof = 0

\* C28: an error met by the drain that follows the data loop, other than a
\* broken pipe, is not dropped: dispatchStream does not return to the loop
\* of the server as if the drain had ended.
C28_DrainErrorPropagates == ~srvReq.drainErr

\* ------------------------------------------------------------------------
\* The input schema of an exchange session
\* ------------------------------------------------------------------------
\* C29: once an exchange with rows of schema S was sent on a session, an
\* exchange() with rows whose schema differs from S (in the number, the
\* names or the order of the fields) throws ProtocolError and writes nothing
\* to the transport, on the pipe and over HTTP.
C29_SchemaLocked ==
    (xs.last.locked # NoSchema /\ xs.last.input.n > 0
        /\ xs.last.input.keys # xs.last.locked)
    => (xs.last.err = "ProtocolError" /\ xs.last.wrote = <<>>)

\* the same, for the pipe session alone
PipeSchemaLocked == xs.transport = "pipe" => C29_SchemaLocked

\* ------------------------------------------------------------------------
\* The response to a unary call
\* ------------------------------------------------------------------------
\* C30: when the handler of a unary call returns normally, the response is
\* one IPC stream: a schema message, one log batch for each message the
\* handler logged, in the order it logged them, then one result batch, then
\* the end-of-stream marker; over the pipe and over HTTP alike.
C30_LogsThenResult ==
    (un.calls > 0 /\ un.handler.end = "return") =>
        LET body == un.body
            n == Len(un.handler.logs)
        IN /\ Len(body) = n + 3
           /\ body[1].k = "S" /\ body[Len(body)].k = "E"
           /\ \A i \in 2..(Len(body) - 1) : body[i].k \notin {"S", "E"}
           /\ \A i \in 1..n : /\ body[i + 1].k = "log"
                               /\ body[i + 1].message = un.handler.logs[i]
           /\ body[n + 2].k = "result"
           /\ un.transport = "http" => un.status = 200

\* a handler logged two different messages and returned, over HTTP
C30_Witness ==
    /\ un.transport = "http" /\ un.handler.end = "return"
    /\ Len(un.handler.logs) = 2 /\ un.handler.logs[1] # un.handler.logs[2]
    /\ Len(un.body) = 5 /\ un.body[4].k = "result"

\* C31: when the handler of a unary call throws, the response is one IPC
\* stream on the result schema holding one error batch and nothing else,
\* whatever the handler logged before; over HTTP its status is 500.
C31_ThrowIsOneError ==
    (un.calls > 0 /\ un.handler.end = "throw") =>
        /\ un.body = <<F("S", 0, "result", "", 0), Batch("error", 0), F("E", 0, "", "", 0)>>
        /\ un.transport = "http" => un.status = 500

\* a handler logged and then threw, over HTTP
C31_Witness ==
    /\ un.transport = "http" /\ un.handler.end = "throw"
    /\ Len(un.handler.logs) = 2
    /\ un.status = 500 /\ Len(un.body) = 3

\* C32: the answer to a successful /init of an exchange method is a data
\* stream whose only batch has zero rows and carries the token of the
\* initial state, preceded by the header stream exactly when the method
\* declares a header; the exchange function has not been called.
C32_InitIsTokenOnly ==
    (hResp.kind = "init" /\ hResp.status = 200 /\ ~effectiveProducer(hCli.m)) =>
        /\ Len(hResp.batches) = 1
        /\ hResp.batches[1].k = "token" /\ hResp.batches[1].rows = 0
        /\ unpackStateToken(hResp.batches[1].token, signingKey, 0, 0).err = "none"
        /\ Carried(hResp.batches[1].token) = 0
        /\ hResp.header = (hResp.req = "ok")
        /\ hResp.calls = 0 /\ hResp.fn = "none"

\* the init of an exchange method with a header was answered
C32_Witness ==
    /\ hResp.kind = "init" /\ hResp.status = 200 /\ hCli.m = "x"
    /\ hResp.header /\ Len(hResp.batches) = 1 /\ hCli.token # <<>>

\* the request names a method that is not registered
NamesUnregistered ==
    /\ rq.request.path.under /\ rq.request.path.route = "method"
    /\ get(rq.methods, rq.request.path.name) = "undefined"

\* the Content-Length header, when there is one, is within the maximum
Declared ==
    \/ rq.maxRequestBytes = unset
    \/ rq.request.contentLength = <<>>
    \/ parseInt(rq.request.contentLength) <= rq.maxRequestBytes

\* C33: every request that is not a POST is answered 405, every POST whose
\* content type is not the Arrow stream type 415, and every POST for a
\* method that is not registered 404 with an error batch that lists the
\* registered names.
C33_RoutingErrors ==
    rq.n > 0 =>
        /\ rq.request.method # "POST" => rq.response.status = 405
        /\ (rq.request.method = "POST"
              /\ ~includes(rq.request.contentType, ARROW_CONTENT_TYPE))
           => rq.response.status = 415
        /\ (rq.request.method = "POST"
              /\ includes(rq.request.contentType, ARROW_CONTENT_TYPE)
              /\ Declared /\ NamesUnregistered)
           => /\ rq.response.status = 404
              /\ rq.response.body = "error"
              /\ {rq.response.rows[i] : i \in 1..Len(rq.response.rows)}
                    = {rq.methods[i].name : i \in 1..Len(rq.methods)}

\* the POST part of C33 alone
C33_PostPart ==
    (rq.n > 0 /\ rq.request.method = "POST") => C33_RoutingErrors

\* C34: with a maximum request size set, a POST whose body is larger is
\* answered 413 and reaches no dispatcher.
C34_OversizedRejected ==
    (/\ rq.n > 0 /\ rq.maxRequestBytes # unset
     /\ rq.request.method = "POST"
     /\ includes(rq.request.contentType, ARROW_CONTENT_TYPE)
     /\ rq.request.body > rq.maxRequestBytes)
    => (rq.response.status = 413 /\ rq.response.ran = "none")

\* the part of C34 for requests that declare their length
C34_DeclaredPart ==
    rq.request.contentLength # <<>> => C34_OversizedRejected

\* C35: the rows of the describe batch are in lexicographic order of the
\* method names, whatever the order of registration.
C35_DescribeLexicographic ==
    (rq.n > 0 /\ rq.response.body = "describe") =>
        /\ Len(rq.response.rows) = Len(rq.methods)
        /\ \A i, j \in 1..Len(rq.response.rows) :
              i < j => codeUnitLess(rq.response.rows[i].name, rq.response.rows[j].name)

\* the part of C35 about the order of registration: the batch is a function
\* of the set of methods
C35_OrderIndependent ==
    (rq.n > 0 /\ rq.response.body = "describe") =>
        \A r \in Registries :
            {r[i] : i \in 1..Len(r)} = {rq.methods[i] : i \in 1..Len(rq.methods)}
            => buildDescribeBatch(r, rq.collation) = rq.response.rows

\* C36: a session that is closed does nothing more: a step of an iteration
\* resumed or finished after close() neither reads nor writes the pipe and
\* does not release the lock.
C36_ClosedIsInert ==
    [][(sess.closed /\ pc["main"] \in {"it_yield", "it_fin_wait"}
           /\ pc'["main"] # pc["main"])
       => UNCHANGED <<c2s, s2c, busy, holders>>]_vars

\* C37: every batch a pipe session wrote onto its input stream has the
\* schema the stream was opened with, whatever the exchanges were.
C37_BatchesMatchStream ==
    xs.transport = "pipe" =>
        \A i \in 1..Len(xs.wire) :
            xs.wire[i].k = "B" => xs.wire[i].schema = xs.writer

\* C38: in every round of a stream, on the pipe and over HTTP, the function
\* called is the produce function exactly when the method is a producer
\* after the override of its init state, the mode its collector is built in.
C38_FunctionMatchesMode ==
    /\ (produced.fn # "none" /\ srvReq.op = produced.op)
          => (produced.fn = "produce" <=> effectiveProducer(srvReq.m))
    /\ hResp.fn # "none"
          => (hResp.fn = "produce" <=> effectiveProducer(hCli.m))

\* the part of C38 for methods without the override
C38_WithoutOverride ==
    /\ (produced.fn # "none" /\ srvReq.op = produced.op /\ srvReq.m # "xo")
          => (produced.fn = "produce" <=> effectiveProducer(srvReq.m))
    /\ (hResp.fn # "none" /\ hCli.m # "xo")
          => (hResp.fn = "produce" <=> effectiveProducer(hCli.m))

\* C39: whatever the byte cap, zero included, a response to a producer that
\* carries a continuation token was built with at least one call of the
\* produce function: the state of its token is ahead of the state the
\* request carried and short of the call that finishes, so that a producer
\* that finishes at its n-th call is delivered in at most n responses.
C39_CallBeforeToken ==
    /\ (hCli.live /\ isProducer(hCli.m) /\ hResp.status = 200
           /\ LastToken(hResp.batches) # <<>>)
       => /\ hResp.calls >= 1
          /\ hResp.after >= 1
          /\ hResp.after > hResp.before
          /\ hResp.after < Len(hCli.prog)
          /\ Carried(LastToken(hResp.batches)) = hResp.after
    /\ (hCli.live /\ isProducer(hCli.m) /\ ~hCli.again.ran)
       => /\ hCli.rounds + 1 <= hResp.after + (IF hResp.fin THEN 0 ELSE 1)
          /\ hResp.fin => /\ hCli.done
                          /\ hCli.rounds + 1 <= Len(hCli.prog)
                          /\ hCli.got = Delivered(hCli.prog)

\* under a cap of zero bytes the second response of a producer carries a
\* token again, after one call
C39_Witness ==
    /\ hCli.live /\ isProducer(hCli.m) /\ hCfg.maxBytes = 0
    /\ ~hCli.again.ran
    /\ hResp.kind = "exchange" /\ hResp.req = "held" /\ hResp.status = 200
    /\ LastToken(hResp.batches) # <<>>
    /\ hResp.calls = 1 /\ hResp.before = 1 /\ hResp.after = 2
    /\ Len(hCli.prog) = 3 /\ hCli.rounds = 1

\* C40: once the iterator of a producer session over HTTP has returned,
\* iterating the session again sends no request, so that no token is
\* submitted twice, and yields nothing.
C40_FinishedStaysFinished ==
    hCli.again.ran => (~hCli.again.sent /\ hCli.again.yielded = 0)

\* the part of C40 for sessions that ended within the init response
C40_EndedAtInit ==
    (hCli.again.ran /\ hCli.rounds = 0) => C40_FinishedStaysFinished
====
